---- MODULE Spec2Model ----
(***************************************************************************)
(* Recording / overdub / playback timeline engine of the YouTube Art Mixer *)
(* (create.html, playback.js).  Times are milliseconds.  The clock moves   *)
(* in steps of Quantum; a timer fires at the first clock value that is at  *)
(* or after its due time (browser timers never fire early).                *)
(***************************************************************************)
EXTENDS Integers, Sequences, FiniteSets, TLC

\* ------------------------------------------------------------------ bounds
NumSlots == 2          \* slots modelled (the page has six)
MaxUserActions == 2    \* user gestures per run
SecondMs == 25        \* period of the countdown / recording timers, compressed
RecordSeconds == 8     \* length of the recording window in timer periods, compressed

\* ----------------------------------------------------- program constants
ThrottleMs == 25
DebounceMs == 50
ReplayTickMs == 100
MainSeekDelayMs == 25
LockReleaseMs == 50
OpacityWindowMs == 100
InterpGapMs == 500
CountdownFrom == 3
DefaultVolume == 50
DefaultOpacity == 100
FallbackVolume == 50
DirectDiff == 2
LargeDiff == 20
StepSmall == 2
StepLarge == 5
NumKeyframes == 3

Quantum == ThrottleMs
DurationMs == RecordSeconds * SecondMs

Slots == 0 .. (NumSlots - 1)
Null == 0 - 1          \* JavaScript null / undefined / no timer
NoVideo == [none |-> TRUE]
SliderControls == {"volume", "opacity"}
Controls == {"volume", "opacity", "timestamps"}
Keys == Slots \X Controls
LiveValues == {0, 100}     \* values a slider gesture can set
KeyTimes == {5}            \* media positions (s) a keyframe can hold

Min(a, b) == IF a < b THEN a ELSE b
Max(a, b) == IF a > b THEN a ELSE b
Abs(a) == IF a < 0 THEN -a ELSE a
\* the linked value taken over without Math.max(0, Math.min(100, ...))
Unclamped(v) == v
Clamp(v) == Max(0, Min(100, v))

\* Math.round of the rational n / d (d > 0): floor(n/d + 1/2)
FloorDiv(n, d) == n \div d
RoundDiv(n, d) == (2 * n + d) \div (2 * d)

EmptySlotData == [volume |-> <<>>, opacity |-> <<>>, timestamps |-> <<>>]

Loaded(vids) == {s \in Slots : vids[s] # NoVideo}

\* ------------------------------------------------- truncation (hijack rule)
FilterBefore(data, fromTime) ==
    SelectSeq(data, LAMBDA point : point.timestamp < fromTime)

\* deleteFutureRecordingData keeping the samples recorded at fromTime itself
deleteFutureRecordingDataAfter(sessions, slot, controlType, fromTime) ==
    [i \in 1 .. Len(sessions) |->
        IF slot \in DOMAIN sessions[i].controlData
        THEN [sessions[i] EXCEPT
                 !.controlData[slot][controlType] =
                     SelectSeq(@, LAMBDA point : point.timestamp <= fromTime)]
        ELSE sessions[i]]

deleteFutureRecordingData(sessions, slot, controlType, fromTime) ==
    [i \in 1 .. Len(sessions) |->
        IF slot \in DOMAIN sessions[i].controlData
        THEN [sessions[i] EXCEPT
                 !.controlData[slot][controlType] = FilterBefore(@, fromTime)]
        ELSE sessions[i]]

\* --------------------------------------------------- linked-hijack closure
Paired(controlType) == IF controlType = "volume" THEN "opacity" ELSE "volume"

\* collectLinkedControlsToHijack without its "never for timestamps" test
collectLinkedControlsWithKeyframes(vids, sourceSlot, sourceControlType) ==
    IF vids[sourceSlot] = NoVideo THEN {<<sourceSlot, sourceControlType>>}
    ELSE
      LET src == vids[sourceSlot]
          isSlider == sourceControlType \in SliderControls
          own == IF src.volumeOpacityLinked /\ isSlider
                 THEN {<<sourceSlot, Paired(sourceControlType)>>} ELSE {}
          others == {s \in Loaded(vids) :
                        s # sourceSlot /\ vids[s].linked /\ ~vids[s].locked}
          cross == IF src.linked
                   THEN {<<s, sourceControlType>> : s \in others}
                        \cup (IF src.volumeOpacityLinked /\ isSlider
                              THEN {<<s, Paired(sourceControlType)>> : s \in others}
                              ELSE {})
                   ELSE {}
      IN {<<sourceSlot, sourceControlType>>} \cup own \cup cross

\* collectLinkedControlsToHijack reaching linked tracks that are locked too
collectLinkedControlsLockedToo(vids, sourceSlot, sourceControlType) ==
    IF vids[sourceSlot] = NoVideo THEN {<<sourceSlot, sourceControlType>>}
    ELSE
      LET src == vids[sourceSlot]
          isSlider == sourceControlType \in SliderControls
          own == IF src.volumeOpacityLinked /\ isSlider
                 THEN {<<sourceSlot, Paired(sourceControlType)>>} ELSE {}
          others == {s \in Loaded(vids) : s # sourceSlot /\ vids[s].linked}
          cross == IF src.linked /\ sourceControlType # "timestamps"
                   THEN {<<s, sourceControlType>> : s \in others}
                        \cup (IF src.volumeOpacityLinked /\ isSlider
                              THEN {<<s, Paired(sourceControlType)>> : s \in others}
                              ELSE {})
                   ELSE {}
      IN {<<sourceSlot, sourceControlType>>} \cup own \cup cross

collectLinkedControlsToHijack(vids, sourceSlot, sourceControlType) ==
    IF vids[sourceSlot] = NoVideo THEN {<<sourceSlot, sourceControlType>>}
    ELSE
      LET src == vids[sourceSlot]
          isSlider == sourceControlType \in SliderControls
          own == IF src.volumeOpacityLinked /\ isSlider
                 THEN {<<sourceSlot, Paired(sourceControlType)>>} ELSE {}
          others == {s \in Loaded(vids) :
                        s # sourceSlot /\ vids[s].linked /\ ~vids[s].locked}
          cross == IF src.linked /\ sourceControlType # "timestamps"
                   THEN {<<s, sourceControlType>> : s \in others}
                        \cup (IF src.volumeOpacityLinked /\ isSlider
                              THEN {<<s, Paired(sourceControlType)>> : s \in others}
                              ELSE {})
                   ELSE {}
      IN {<<sourceSlot, sourceControlType>>} \cup own \cup cross

\* hijackControl without the hijackedControls.has(controlKey) test of its guard
hijackControlAgain(playbackMode, hijacked, sessions, vids, slot, controlType, currentTime) ==
    IF playbackMode
    THEN LET toHijack == collectLinkedControlsToHijack(vids, slot, controlType) \ hijacked
             keySeq == CHOOSE q \in [1 .. Cardinality(toHijack) -> toHijack] :
                           \A i, j \in DOMAIN q : i # j => q[i] # q[j]
             Trunc[n \in 0 .. Cardinality(toHijack)] ==
                 IF n = 0 THEN sessions
                 ELSE deleteFutureRecordingData(Trunc[n - 1], keySeq[n][1],
                                                keySeq[n][2], currentTime)
         IN <<hijacked \cup toHijack, Trunc[Cardinality(toHijack)]>>
    ELSE <<hijacked, sessions>>

\* hijackControl: the pair <<hijack set, sessions>> it leaves
hijackControl(playbackMode, hijacked, sessions, vids, slot, controlType, currentTime) ==
    IF playbackMode /\ <<slot, controlType>> \notin hijacked
    THEN LET toHijack == collectLinkedControlsToHijack(vids, slot, controlType) \ hijacked
             keySeq == CHOOSE q \in [1 .. Cardinality(toHijack) -> toHijack] :
                           \A i, j \in DOMAIN q : i # j => q[i] # q[j]
             Trunc[n \in 0 .. Cardinality(toHijack)] ==
                 IF n = 0 THEN sessions
                 ELSE deleteFutureRecordingData(Trunc[n - 1], keySeq[n][1],
                                                keySeq[n][2], currentTime)
         IN <<hijacked \cup toHijack, Trunc[Cardinality(toHijack)]>>
    ELSE <<hijacked, sessions>>

\* ------------------------------------------------------ overdub replayer
\* The replayer works on a record st of the page state it reads and writes:
\*   volSlider, opcSlider  slider values          cpv  currentPlaybackVolumes
\*   playerVolume          preview player volume  layerOpacity  main layer
\*   syncLocks, seekChain, previewSeek            writes  keys written (history)
NoChain == [stage |-> 0, due |-> Null, target |-> Null, origin |-> "none"]

\* applyVolumeSmooth without the ramp: the target is applied at once
applyVolumeDirect(st, slot, targetVolume) ==
    [st EXCEPT !.cpv[slot] = targetVolume, !.playerVolume[slot] = targetVolume]

applyVolumeSmooth(st, slot, targetVolume) ==
    LET currentVolume == IF st.cpv[slot] = Null THEN st.playerVolume[slot]
                         ELSE st.cpv[slot]
        volumeDiff == Abs(targetVolume - currentVolume)
        step == IF volumeDiff > LargeDiff THEN StepLarge ELSE StepSmall
        nextVolume == currentVolume
                        + (IF targetVolume > currentVolume THEN step ELSE -step)
        clampedVolume == IF targetVolume > currentVolume
                         THEN Min(nextVolume, targetVolume)
                         ELSE Max(nextVolume, targetVolume)
        applied == IF volumeDiff <= DirectDiff THEN targetVolume ELSE clampedVolume
    IN [st EXCEPT !.cpv[slot] = applied, !.playerVolume[slot] = applied]

\* index of the first sample with timestamp > currentTime (Len + 1 if none)
FirstAfter(data, currentTime) ==
    LET later == {i \in 1 .. Len(data) : data[i].timestamp > currentTime}
    IN IF later = {} THEN Len(data) + 1
       ELSE CHOOSE i \in later : \A j \in later : i <= j

\* playbackVolumeData interpolating whatever the gap between the two samples
volumeTargetAnyGap(volumeData, currentTime) ==
    LET n == FirstAfter(volumeData, currentTime)
    IN IF n = 1 THEN Null
       ELSE LET currentPoint == volumeData[n - 1]
            IN IF n <= Len(volumeData)
               THEN LET nextPoint == volumeData[n]
                        timeDiff == nextPoint.timestamp - currentPoint.timestamp
                        valueDiff == nextPoint.value - currentPoint.value
                    IN RoundDiv(currentPoint.value * timeDiff
                                  + valueDiff * (currentTime - currentPoint.timestamp),
                                timeDiff)
               ELSE currentPoint.value

\* the value playbackVolumeData computes, Null when there is no current point
volumeTarget(volumeData, currentTime) ==
    LET n == FirstAfter(volumeData, currentTime)
    IN IF n = 1 THEN Null
       ELSE LET currentPoint == volumeData[n - 1]
            IN IF n <= Len(volumeData)
               THEN LET nextPoint == volumeData[n]
                        timeDiff == nextPoint.timestamp - currentPoint.timestamp
                        valueDiff == nextPoint.value - currentPoint.value
                    IN IF timeDiff < InterpGapMs
                       THEN RoundDiv(currentPoint.value * timeDiff
                                       + valueDiff * (currentTime - currentPoint.timestamp),
                                     timeDiff)
                       ELSE currentPoint.value
               ELSE currentPoint.value

playbackVolumeData(st, hijacked, slot, volumeData, currentTime) ==
    LET v == volumeTarget(volumeData, currentTime)
    IN IF v # Null /\ <<slot, "volume">> \notin hijacked
       THEN applyVolumeSmooth([st EXCEPT !.volSlider[slot] = v,
                                         !.writes = @ \cup {<<slot, "volume">>}],
                              slot, v)
       ELSE st

\* Array.find: the first sample within the window, 0 when there is none
FindNear(data, currentTime) ==
    LET near == {i \in 1 .. Len(data) :
                    Abs(data[i].timestamp - currentTime) < OpacityWindowMs}
    IN IF near = {} THEN 0 ELSE CHOOSE i \in near : \A j \in near : i <= j

playbackOpacityData(st, hijacked, slot, opacityData, currentTime) ==
    LET i == FindNear(opacityData, currentTime)
    IN IF i # 0 /\ <<slot, "opacity">> \notin hijacked
       THEN [st EXCEPT !.opcSlider[slot] = opacityData[i].value,
                       !.layerOpacity[slot] = opacityData[i].value,
                       !.writes = @ \cup {<<slot, "opacity">>}]
       ELSE st

\* playbackTimestampData seeking to the track's first keyframe button whatever
\* index the sample names
playbackTimestampDataFirstButton(st, vids, slot, timestampData, currentTime, nowMs) ==
    LET i == FindNear(timestampData, currentTime)
    IN IF i # 0 /\ timestampData[i].action = "jump"
       THEN LET targetTime == vids[slot].keyframes[1]
            IN IF targetTime # Null /\ ~st.syncLocks[slot]
               THEN [st EXCEPT !.syncLocks[slot] = TRUE,
                               !.previewSeek[slot] = targetTime,
                               !.seekChain[slot] =
                                   [stage |-> 1, due |-> nowMs + MainSeekDelayMs,
                                    target |-> targetTime, origin |-> "replay"],
                               !.writes = @ \cup {<<slot, "timestamps">>}]
               ELSE st
       ELSE st

playbackTimestampData(st, vids, slot, timestampData, currentTime, nowMs) ==
    LET i == FindNear(timestampData, currentTime)
    IN IF i # 0 /\ timestampData[i].action = "jump"
       THEN LET targetTime == vids[slot].keyframes[timestampData[i].keyframeIndex + 1]
            IN IF targetTime # Null /\ ~st.syncLocks[slot]
               THEN [st EXCEPT !.syncLocks[slot] = TRUE,
                               !.previewSeek[slot] = targetTime,
                               !.seekChain[slot] =
                                   [stage |-> 1, due |-> nowMs + MainSeekDelayMs,
                                    target |-> targetTime, origin |-> "replay"],
                               !.writes = @ \cup {<<slot, "timestamps">>}]
               ELSE st
       ELSE st

\* one slot of playbackSessionData: volume, then opacity, then keyframe events
playbackSlot(st, hijacked, vids, slot, slotData, currentTime, nowMs) ==
    IF vids[slot] = NoVideo THEN st
    ELSE LET a == playbackVolumeData(st, hijacked, slot, slotData.volume, currentTime)
             b == playbackOpacityData(a, hijacked, slot, slotData.opacity, currentTime)
         IN IF <<slot, "timestamps">> \in hijacked THEN b
            ELSE playbackTimestampData(b, vids, slot, slotData.timestamps,
                                       currentTime, nowMs)

\* Object.keys(session.controlData).forEach: integer keys in ascending order
playbackSessionData(st, hijacked, vids, session, currentTime, nowMs) ==
    LET Step[s \in -1 .. (NumSlots - 1)] ==
            IF s = -1 THEN st
            ELSE IF s \in DOMAIN session.controlData
                 THEN playbackSlot(Step[s - 1], hijacked, vids, s,
                                   session.controlData[s], currentTime, nowMs)
                 ELSE Step[s - 1]
    IN Step[NumSlots - 1]

\* recordingSessions.forEach(session => playbackSessionData(session, elapsed))
replayAll(st, hijacked, vids, sessions, currentTime, nowMs) ==
    LET Step[i \in 0 .. Len(sessions)] ==
            IF i = 0 THEN st
            ELSE playbackSessionData(Step[i - 1], hijacked, vids, sessions[i],
                                     currentTime, nowMs)
    IN Step[Len(sessions)]

\* ------------------------------------------------- live slider handlers
\* The handlers work on a record pg of the page state they read and write:
\*   videos, volSlider, opcSlider, playerVolume, layerOpacity,
\*   hijacked (hijackedControls), sessions (recordingSessions)
hijackIn(pg, playbackMode, slot, controlType, currentTime) ==
    LET r == hijackControl(playbackMode, pg.hijacked, pg.sessions, pg.videos,
                           slot, controlType, currentTime)
    IN [pg EXCEPT !.hijacked = r[1], !.sessions = r[2]]

\* the body of the forEach of updateLinkedControls for one slot
linkOne(pg, playbackMode, sourceSlot, type, change, slot, currentTime) ==
    IF slot # sourceSlot /\ pg.videos[slot] # NoVideo
       /\ pg.videos[slot].linked /\ ~pg.videos[slot].locked
    THEN IF type = "volume"
         THEN LET newLinkedValue == Clamp(pg.videos[slot].volume + change)
              IN hijackIn([pg EXCEPT !.videos[slot].volume = newLinkedValue,
                                     !.volSlider[slot] = newLinkedValue,
                                     !.playerVolume[slot] = newLinkedValue],
                          playbackMode, slot, "volume", currentTime)
         ELSE LET newLinkedValue == Clamp(pg.videos[slot].opacity + change)
              IN hijackIn([pg EXCEPT !.videos[slot].opacity = newLinkedValue,
                                     !.opcSlider[slot] = newLinkedValue,
                                     !.layerOpacity[slot] = newLinkedValue],
                          playbackMode, slot, "opacity", currentTime)
    ELSE pg

updateLinkedControls(pg, playbackMode, sourceSlot, type, oldValue, newValue, currentTime) ==
    IF pg.videos[sourceSlot] = NoVideo \/ ~pg.videos[sourceSlot].linked THEN pg
    ELSE LET Step[s \in -1 .. (NumSlots - 1)] ==
                 IF s = -1 THEN pg
                 ELSE linkOne(Step[s - 1], playbackMode, sourceSlot, type,
                              newValue - oldValue, s, currentTime)
         IN Step[NumSlots - 1]

\* updateVolumeImmediate(slot, value, true): the call made from the opacity side
updateVolumeSkipLink(pg, playbackMode, slot, value, currentTime) ==
    LET oldValue == pg.videos[slot].volume
        a == [pg EXCEPT !.videos[slot].volume = value, !.playerVolume[slot] = value]
    IN IF a.videos[slot].linked
       THEN updateLinkedControls(a, playbackMode, slot, "volume", oldValue, value,
                                 currentTime)
       ELSE a

\* updateOpacityImmediate(slot, value, true): the call made from the volume side
updateOpacitySkipLink(pg, playbackMode, slot, value, currentTime) ==
    LET oldValue == pg.videos[slot].opacity
        a == [pg EXCEPT !.videos[slot].opacity = value, !.layerOpacity[slot] = value]
    IN IF a.videos[slot].linked
       THEN updateLinkedControls(a, playbackMode, slot, "opacity", oldValue, value,
                                 currentTime)
       ELSE a

updateVolumeImmediate(pg, playbackMode, slot, value, currentTime) ==
    IF pg.videos[slot] = NoVideo THEN pg
    ELSE LET oldValue == pg.videos[slot].volume
             a == [pg EXCEPT !.videos[slot].volume = value,
                             !.playerVolume[slot] = value]
             b == IF a.videos[slot].volumeOpacityLinked
                  THEN LET newOpacity == Clamp(a.opcSlider[slot] + (value - oldValue))
                       IN updateOpacitySkipLink([a EXCEPT !.opcSlider[slot] = newOpacity],
                                                playbackMode, slot, newOpacity,
                                                currentTime)
                  ELSE a
         IN IF b.videos[slot].linked
            THEN updateLinkedControls(b, playbackMode, slot, "volume", oldValue,
                                      value, currentTime)
            ELSE b

updateOpacityImmediate(pg, playbackMode, slot, value, currentTime) ==
    IF pg.videos[slot] = NoVideo THEN pg
    ELSE LET oldValue == pg.videos[slot].opacity
             a == [pg EXCEPT !.videos[slot].opacity = value,
                             !.layerOpacity[slot] = value]
             b == IF a.videos[slot].volumeOpacityLinked
                  THEN LET newVolume == Clamp(a.volSlider[slot] + (value - oldValue))
                       IN updateVolumeSkipLink([a EXCEPT !.volSlider[slot] = newVolume],
                                               playbackMode, slot, newVolume,
                                               currentTime)
                  ELSE a
         IN IF b.videos[slot].linked
            THEN updateLinkedControls(b, playbackMode, slot, "opacity", oldValue,
                                      value, currentTime)
            ELSE b

\* ---------------------------------------------------------------- recorder
\* recordControlChange: the in-progress session after the append
recordControlChange(recording, data, startTime, slot, controlType, value, nowMs) ==
    IF ~recording THEN data
    ELSE LET withSlot == IF slot \in DOMAIN data.controlData THEN data
                         ELSE [data EXCEPT !.controlData =
                                   [s \in (DOMAIN @) \cup {slot} |->
                                       IF s \in DOMAIN @ THEN @[s] ELSE EmptySlotData]]
         IN [withSlot EXCEPT !.controlData[slot][controlType] =
                Append(@, [timestamp |-> nowMs - startTime, value |-> value])]

\* recordControlChangeThrottled recording every value it is handed
recordControlChangeUnthrottled(recording, data, lastTime, startTime, slot, controlType, value, nowMs) ==
    IF ~recording THEN <<data, lastTime>>
    ELSE <<recordControlChange(recording, data, startTime, slot,
                               controlType, value, nowMs),
           [lastTime EXCEPT ![<<slot, controlType>>] = nowMs]>>

\* recordControlChangeThrottled: <<in-progress session, lastRecordingTime>>
\* (a missing lastRecordingTime entry reads as 0, as !undefined and !0 agree)
recordControlChangeThrottled(recording, data, lastTime, startTime, slot, controlType, value, nowMs) ==
    IF ~recording THEN <<data, lastTime>>
    ELSE IF nowMs - lastTime[<<slot, controlType>>] >= ThrottleMs
         THEN <<recordControlChange(recording, data, startTime, slot,
                                    controlType, value, nowMs),
                [lastTime EXCEPT ![<<slot, controlType>>] = nowMs]>>
         ELSE <<data, lastTime>>

recordTimestampChange(recording, data, startTime, slot, keyframeIndex, time, action, nowMs) ==
    IF ~recording THEN data
    ELSE LET withSlot == IF slot \in DOMAIN data.controlData THEN data
                         ELSE [data EXCEPT !.controlData =
                                   [s \in (DOMAIN @) \cup {slot} |->
                                       IF s \in DOMAIN @ THEN @[s] ELSE EmptySlotData]]
         IN [withSlot EXCEPT !.controlData[slot].timestamps =
                Append(@, [timestamp |-> nowMs - startTime,
                           keyframeIndex |-> keyframeIndex,
                           time |-> time, action |-> action])]

\* =========================================================== state machine
VARIABLES
    now,                  \* Date.now()
    used,                 \* user gestures made so far
    videos,               \* videos[slot]
    volSlider, opcSlider, \* vol-<slot>.value, opc-<slot>.value
    ctlDisabled,          \* sliders and link button of a slot disabled
    lockBtnDisabled,      \* lock buttons disabled (between sessions)
    playerVolume,         \* volume of previewPlayers[slot]
    layerOpacity,         \* main-layer-<slot> opacity, in percent
    previewSeek, mainSeek,\* last seekTo target of each player
    currentPlaybackVolumes,
    syncLocks,
    seekChain,            \* the nested setTimeout chain of a jump, per slot
    isRecording, isCountdown, isPlaybackMode,
    recordingStartTime, playbackStartTime,
    currentSession, recordingSessions, currentRecordingData,
    hijackedControls, lastRecordingTime,
    countdown, countdownDue, \* countdownInterval
    timeLeft, recordingDue,  \* recordingInterval
    playbackDue,             \* playbackInterval
    debounceDue,             \* sliderDebounceTimers
    alertMsg,                \* last alert shown
    op,                      \* history: the handler that ran last, the control
                             \* it was called for, and the store it found
    replayWrites,            \* history: keys the replayer wrote in the last step
    firstTouch,              \* history: elapsed time of the first live touch of a
                             \* replay-driven slider in this recording window
    pb                       \* the playback page (playback.js) and what it loaded

vars == <<now, used, videos, volSlider, opcSlider, ctlDisabled, lockBtnDisabled,
          playerVolume, layerOpacity, previewSeek, mainSeek,
          currentPlaybackVolumes, syncLocks, seekChain, isRecording,
          isCountdown, isPlaybackMode, recordingStartTime, playbackStartTime,
          currentSession, recordingSessions, currentRecordingData,
          hijackedControls, lastRecordingTime, countdown, countdownDue,
          timeLeft, recordingDue, playbackDue, debounceDue, alertMsg, op,
          replayWrites, firstTouch, pb>>

MaxSessions == 2            \* recording passes per run
MaxFirstTakeActions == 1    \* user gestures before the first take is stored
Epoch == 40 * Quantum  \* Date.now() when the page is ready
KeyframeIndexes == 0 .. (NumKeyframes - 1)
SliderKeys == Slots \X SliderControls
NoAlert == [kind |-> "none", slots |-> <<>>]

\* the media a slot is loaded with in this model: one distinct video per slot
VideoIds == <<"vidA", "vidB", "vidC", "vidD">>

\* the video object loadVideoInSlot builds
NewVideo(videoId, kf, lnk, vol) ==
    [videoId |-> videoId, volume |-> DefaultVolume, opacity |-> DefaultOpacity,
     linked |-> lnk, volumeOpacityLinked |-> vol, locked |-> FALSE, keyframes |-> kf]

\* history records of the last handler
NoKey == <<Null, "none">>
Ran(name) ==
    [name |-> name, key |-> NoKey, called |-> FALSE, time |-> Null,
     hijacked |-> {}, sessions |-> <<>>]
\* called: the handler invoked hijackControl(slot, controlType) itself
RanOn(name, slot, controlType, called) ==
    [name |-> name, key |-> <<slot, controlType>>, called |-> called,
     time |-> now - recordingStartTime,
     hijacked |-> hijackedControls, sessions |-> recordingSessions]

\* The page after the set-up gestures made before the first recording: which
\* slots hold a video, which of them have a first keyframe, and their links.
Track(s, kf, lnk, vol) == NewVideo(VideoIds[s + 1], <<kf, Null, Null>>, lnk, vol)
Setups ==
    { [s \in Slots |-> NoVideo],
      [s \in Slots |-> IF s = 0 THEN NoVideo ELSE Track(s, 5, FALSE, FALSE)],
      [s \in Slots |-> IF s = 0 THEN Track(s, 5, FALSE, FALSE)
                                ELSE Track(s, Null, FALSE, FALSE)],
      [s \in Slots |-> Track(s, Null, FALSE, FALSE)],
      [s \in Slots |-> Track(s, 5, TRUE, FALSE)],
      [s \in Slots |-> Track(s, 5, TRUE, s = 0)] }

\* the playback page before it has loaded anything
NoPiece == [none |-> TRUE]
PbTickMs == 50
PbJumpWindowMs == 200
PbSeekDebounceMs == 500
PbSeekLockMs == 100

\* seek keys `${slot}-${entry.time}` of window.lastSeekTime
SeekKeys == Slots \X KeyTimes

NoPlayback ==
    [piece |-> NoPiece, loaded |-> FALSE, videos |-> [s \in Slots |-> NoVideo],
     mainVolume |-> [s \in Slots |-> Null], layerOpacity |-> [s \in Slots |-> Null],
     cpv |-> [s \in Slots |-> Null], time |-> 0,
     active |-> FALSE,                          \* isPlaybackActive
     intervalDue |-> Null,                      \* playbackInterval
     start |-> 0,                               \* playbackStartTime
     paused |-> FALSE,                          \* history: pausePlayback has returned
     seek |-> [s \in Slots |-> Null],           \* last seekTo target of the players
     seekingSlots |-> {},                       \* window.seekingSlots
     unlockDue |-> [s \in Slots |-> Null],      \* timer of performSmoothSeek
     lastSeekTime |-> [k \in SeekKeys |-> Null]]

Init ==
    /\ now = Epoch
    /\ used = 0
    /\ videos \in Setups
    /\ volSlider = [s \in Slots |-> DefaultVolume]
    /\ opcSlider = [s \in Slots |-> DefaultOpacity]
    /\ ctlDisabled = [s \in Slots |-> FALSE]
    /\ lockBtnDisabled = FALSE
    /\ playerVolume = [s \in Slots |-> DefaultVolume]
    /\ layerOpacity = [s \in Slots |-> DefaultOpacity]
    /\ previewSeek = [s \in Slots |-> Null]
    /\ mainSeek = [s \in Slots |-> Null]
    /\ currentPlaybackVolumes = [s \in Slots |-> Null]
    /\ syncLocks = [s \in Slots |-> FALSE]
    /\ seekChain = [s \in Slots |-> NoChain]
    /\ isRecording = FALSE
    /\ isCountdown = FALSE
    /\ isPlaybackMode = FALSE
    /\ recordingStartTime = 0
    /\ playbackStartTime = 0
    /\ currentSession = 0
    /\ recordingSessions = <<>>
    /\ currentRecordingData =
           [session |-> 0, startTime |-> 0, duration |-> DurationMs,
            controlData |-> <<>>]
    /\ hijackedControls = {}
    /\ lastRecordingTime = [k \in Keys |-> 0]
    /\ countdown = 0
    /\ countdownDue = Null
    /\ timeLeft = 0
    /\ recordingDue = Null
    /\ playbackDue = Null
    /\ debounceDue = [k \in SliderKeys |-> Null]
    /\ alertMsg = NoAlert
    /\ op = Ran("load")
    /\ replayWrites = {}
    /\ firstTouch = [k \in SliderKeys |-> Null]
    /\ pb = NoPlayback

Page == [videos |-> videos, volSlider |-> volSlider, opcSlider |-> opcSlider,
         playerVolume |-> playerVolume, layerOpacity |-> layerOpacity,
         hijacked |-> hijackedControls, sessions |-> recordingSessions]

SetPage(pg) ==
    /\ videos' = pg.videos
    /\ volSlider' = pg.volSlider
    /\ opcSlider' = pg.opcSlider
    /\ playerVolume' = pg.playerVolume
    /\ layerOpacity' = pg.layerOpacity
    /\ hijackedControls' = pg.hijacked
    /\ recordingSessions' = pg.sessions

Elapsed == now - recordingStartTime

\* ----------------------------------------------------------- user gestures
Gesture ==
    /\ used < MaxUserActions
    /\ recordingSessions = <<>> => used < MaxFirstTakeActions
    /\ used' = used + 1

TimerVars == <<countdown, countdownDue, timeLeft, recordingDue, playbackDue>>
ReplayVars == <<currentPlaybackVolumes, syncLocks, seekChain, previewSeek, mainSeek>>
SessionVars == <<isRecording, isCountdown, isPlaybackMode, recordingStartTime,
                 playbackStartTime, currentSession>>

\* the first live touch of a slider the replayer is still driving
NoteTouch(slot, controlType) ==
    firstTouch' =
        IF isRecording /\ isPlaybackMode
           /\ firstTouch[<<slot, controlType>>] = Null
           /\ <<slot, controlType>> \notin hijackedControls
        THEN [firstTouch EXCEPT ![<<slot, controlType>>] = Elapsed]
        ELSE firstTouch

\* oninput of vol-<slot>: updateVolume(slot, value)
UpdateVolume(slot, value) ==
    /\ UNCHANGED pb
    /\ Gesture
    /\ videos[slot] # NoVideo /\ ~ctlDisabled[slot]
    /\ value # volSlider[slot]
    /\ LET pg == updateVolumeImmediate([Page EXCEPT !.volSlider[slot] = value],
                                       isPlaybackMode, slot, value, Elapsed)
           rec == recordControlChangeThrottled(isRecording, currentRecordingData,
                      lastRecordingTime, recordingStartTime, slot, "volume",
                      value, now)
       IN /\ SetPage(pg)
          /\ currentRecordingData' = rec[1]
          /\ lastRecordingTime' = rec[2]
    /\ debounceDue' = [debounceDue EXCEPT ![<<slot, "volume">>] = now + DebounceMs]
    /\ NoteTouch(slot, "volume")
    /\ op' = RanOn("updateVolume", slot, "volume", FALSE)
    /\ replayWrites' = {}
    /\ UNCHANGED <<now, ctlDisabled, lockBtnDisabled, alertMsg>>
    /\ UNCHANGED <<TimerVars, ReplayVars, SessionVars>>

\* oninput of opc-<slot>: updateOpacity(slot, value)
UpdateOpacity(slot, value) ==
    /\ UNCHANGED pb
    /\ Gesture
    /\ videos[slot] # NoVideo /\ ~ctlDisabled[slot]
    /\ value # opcSlider[slot]
    /\ LET pg == updateOpacityImmediate([Page EXCEPT !.opcSlider[slot] = value],
                                        isPlaybackMode, slot, value, Elapsed)
           rec == recordControlChangeThrottled(isRecording, currentRecordingData,
                      lastRecordingTime, recordingStartTime, slot, "opacity",
                      value, now)
       IN /\ SetPage(pg)
          /\ currentRecordingData' = rec[1]
          /\ lastRecordingTime' = rec[2]
    /\ debounceDue' = [debounceDue EXCEPT ![<<slot, "opacity">>] = now + DebounceMs]
    /\ NoteTouch(slot, "opacity")
    /\ op' = RanOn("updateOpacity", slot, "opacity", FALSE)
    /\ replayWrites' = {}
    /\ UNCHANGED <<now, ctlDisabled, lockBtnDisabled, alertMsg>>
    /\ UNCHANGED <<TimerVars, ReplayVars, SessionVars>>

\* the debounce timer of updateVolume / updateOpacity fires
SliderDebounced(slot, controlType) ==
    /\ UNCHANGED pb
    /\ debounceDue[<<slot, controlType>>] # Null
    /\ debounceDue[<<slot, controlType>>] <= now
    /\ debounceDue' = [debounceDue EXCEPT ![<<slot, controlType>>] = Null]
    /\ IF videos[slot] # NoVideo /\ ~videos[slot].locked /\ isPlaybackMode
       THEN SetPage(hijackIn(Page, isPlaybackMode, slot, controlType, Elapsed))
       ELSE SetPage(Page)
    /\ op' = RanOn("sliderDebounced", slot, controlType,
                   videos[slot] # NoVideo /\ ~videos[slot].locked /\ isPlaybackMode)
    /\ replayWrites' = {}
    /\ UNCHANGED <<now, used, ctlDisabled, lockBtnDisabled, alertMsg, firstTouch,
                   currentRecordingData, lastRecordingTime>>
    /\ UNCHANGED <<TimerVars, ReplayVars, SessionVars>>

ToggleLink(slot) ==
    /\ UNCHANGED pb
    /\ Gesture
    /\ videos[slot] # NoVideo /\ ~ctlDisabled[slot]
    /\ ~videos[slot].locked
    /\ videos' = [videos EXCEPT ![slot].linked = ~@]
    /\ op' = Ran("toggleLink")
    /\ replayWrites' = {}
    /\ UNCHANGED <<now, volSlider, opcSlider, ctlDisabled, lockBtnDisabled,
                   playerVolume, layerOpacity, recordingSessions,
                   currentRecordingData, hijackedControls, lastRecordingTime,
                   debounceDue, alertMsg, firstTouch>>
    /\ UNCHANGED <<TimerVars, ReplayVars, SessionVars>>

ToggleVolumeOpacityLink(slot) ==
    /\ UNCHANGED pb
    /\ Gesture
    /\ videos[slot] # NoVideo
    /\ ~videos[slot].locked
    /\ videos' = [videos EXCEPT ![slot].volumeOpacityLinked = ~@]
    /\ op' = Ran("toggleVolumeOpacityLink")
    /\ replayWrites' = {}
    /\ UNCHANGED <<now, volSlider, opcSlider, ctlDisabled, lockBtnDisabled,
                   playerVolume, layerOpacity, recordingSessions,
                   currentRecordingData, hijackedControls, lastRecordingTime,
                   debounceDue, alertMsg, firstTouch>>
    /\ UNCHANGED <<TimerVars, ReplayVars, SessionVars>>

ToggleLock(slot) ==
    /\ UNCHANGED pb
    /\ Gesture
    /\ videos[slot] # NoVideo /\ ~lockBtnDisabled
    /\ videos' = [videos EXCEPT
                     ![slot].volumeOpacityLinked = IF ~videos[slot].locked THEN FALSE ELSE @,
                     ![slot].locked = ~@]
    /\ ctlDisabled' = [ctlDisabled EXCEPT ![slot] = ~videos[slot].locked]
    /\ op' = Ran("toggleLock")
    /\ replayWrites' = {}
    /\ UNCHANGED <<now, volSlider, opcSlider, lockBtnDisabled,
                   playerVolume, layerOpacity, recordingSessions,
                   currentRecordingData, hijackedControls, lastRecordingTime,
                   debounceDue, alertMsg, firstTouch>>
    /\ UNCHANGED <<TimerVars, ReplayVars, SessionVars>>

\* ------------------------------------------------------ keyframe gestures
\* updateKeyframeButton leaves the buttons editable (set / delete) only until
\* the first recording window opens; afterwards a filled button only jumps.
Editable == ~isRecording /\ recordingSessions = <<>>

SliderFrame == <<volSlider, opcSlider, ctlDisabled, lockBtnDisabled,
                 playerVolume, layerOpacity, lastRecordingTime, debounceDue,
                 alertMsg, firstTouch>>

SetKeyframe(slot, keyframeIndex, currentTime) ==
    /\ UNCHANGED pb
    /\ Gesture
    /\ Editable
    /\ videos[slot] # NoVideo /\ ~videos[slot].locked
    /\ LET pg == IF isPlaybackMode
                 THEN hijackIn(Page, isPlaybackMode, slot, "timestamps", Elapsed)
                 ELSE Page
       IN /\ hijackedControls' = pg.hijacked
          /\ recordingSessions' = pg.sessions
    /\ videos' = [videos EXCEPT ![slot].keyframes[keyframeIndex + 1] = currentTime]
    /\ currentRecordingData' =
           recordTimestampChange(isRecording, currentRecordingData,
               recordingStartTime, slot, keyframeIndex, currentTime, "set", now)
    /\ op' = RanOn("setKeyframe", slot, "timestamps", isPlaybackMode)
    /\ replayWrites' = {}
    /\ UNCHANGED <<now, SliderFrame, TimerVars, ReplayVars, SessionVars>>

DeleteKeyframe(slot, keyframeIndex) ==
    /\ UNCHANGED pb
    /\ Gesture
    /\ Editable
    /\ videos[slot] # NoVideo /\ ~videos[slot].locked
    /\ videos[slot].keyframes[keyframeIndex + 1] # Null
    /\ LET pg == IF isPlaybackMode
                 THEN hijackIn(Page, isPlaybackMode, slot, "timestamps", Elapsed)
                 ELSE Page
       IN /\ hijackedControls' = pg.hijacked
          /\ recordingSessions' = pg.sessions
    /\ videos' = [videos EXCEPT ![slot].keyframes[keyframeIndex + 1] = Null]
    /\ currentRecordingData' =
           recordTimestampChange(isRecording, currentRecordingData,
               recordingStartTime, slot, keyframeIndex, Null, "delete", now)
    /\ op' = Ran("deleteKeyframe")
    /\ replayWrites' = {}
    /\ UNCHANGED <<now, SliderFrame, TimerVars, ReplayVars, SessionVars>>

JumpToKeyframe(slot, keyframeIndex) ==
    /\ UNCHANGED pb
    /\ Gesture
    /\ videos[slot] # NoVideo /\ ~videos[slot].locked
    /\ videos[slot].keyframes[keyframeIndex + 1] # Null
    /\ LET targetTime == videos[slot].keyframes[keyframeIndex + 1]
           pg == IF isPlaybackMode /\ isRecording
                 THEN hijackIn(Page, isPlaybackMode, slot, "timestamps", Elapsed)
                 ELSE Page
       IN /\ hijackedControls' = pg.hijacked
          /\ recordingSessions' = pg.sessions
          /\ IF ~syncLocks[slot]
             THEN /\ syncLocks' = [syncLocks EXCEPT ![slot] = TRUE]
                  /\ previewSeek' = [previewSeek EXCEPT ![slot] = targetTime]
                  /\ currentRecordingData' =
                         recordTimestampChange(isRecording, currentRecordingData,
                             recordingStartTime, slot, keyframeIndex, targetTime,
                             "jump", now)
                  /\ seekChain' = [seekChain EXCEPT ![slot] =
                         [stage |-> 1, due |-> now + MainSeekDelayMs,
                          target |-> targetTime, origin |-> "user"]]
             ELSE UNCHANGED <<syncLocks, previewSeek, currentRecordingData, seekChain>>
    /\ op' = RanOn("jumpToKeyframe", slot, "timestamps",
                   isPlaybackMode /\ isRecording)
    /\ replayWrites' = {}
    /\ UNCHANGED <<now, videos, SliderFrame, TimerVars, SessionVars,
                   currentPlaybackVolumes, mainSeek>>

\* the setTimeout chain of a jump: seek the main player, then release the lock
SeekChainStep(slot) ==
    /\ UNCHANGED pb
    /\ seekChain[slot].stage # 0
    /\ seekChain[slot].due <= now
    /\ IF seekChain[slot].stage = 1
       THEN /\ mainSeek' = [mainSeek EXCEPT ![slot] = seekChain[slot].target]
            /\ seekChain' = [seekChain EXCEPT ![slot].stage = 2,
                                              ![slot].due = now + LockReleaseMs]
            /\ replayWrites' = IF seekChain[slot].origin = "replay"
                               THEN {<<slot, "timestamps">>} ELSE {}
            /\ UNCHANGED syncLocks
       ELSE /\ syncLocks' = [syncLocks EXCEPT ![slot] = FALSE]
            /\ seekChain' = [seekChain EXCEPT ![slot] = NoChain]
            /\ replayWrites' = {}
            /\ UNCHANGED mainSeek
    /\ op' = Ran("seekTimer")
    /\ UNCHANGED <<now, used, videos, SliderFrame, TimerVars, SessionVars,
                   currentPlaybackVolumes, previewSeek, recordingSessions,
                   currentRecordingData, hijackedControls>>

\* ------------------------------------------------------ session lifecycle
HasKeyframe(video) == \E i \in 1 .. NumKeyframes : video.keyframes[i] # Null

\* slots in ascending order, as a sequence
SortedSeq(S) ==
    LET F[n \in 0 .. Cardinality(S)] ==
            IF n = 0 THEN <<>>
            ELSE LET rest == {x \in S : \A i \in 1 .. Len(F[n - 1]) : F[n - 1][i] # x}
                 IN Append(F[n - 1], CHOOSE x \in rest : \A y \in rest : x <= y)
    IN F[Cardinality(S)]

\* videosWithoutKeyframes numbering a track by its place among the loaded ones
videosWithoutKeyframesByIndex(vids) ==
    SortedSeq({Cardinality({u \in Loaded(vids) : u < t}) + 1 :
                  t \in {t \in Loaded(vids) : ~HasKeyframe(vids[t])}})

\* videosWithoutKeyframes of startRecordingSession: user-facing slot numbers
videosWithoutKeyframes(vids) ==
    SortedSeq({s + 1 : s \in {t \in Loaded(vids) : ~HasKeyframe(vids[t])}})

\* the record button: toggleRecording -> startRecordingSession
StartRecordingSession ==
    /\ UNCHANGED pb
    /\ ~isRecording /\ ~isCountdown
    /\ Len(recordingSessions) < MaxSessions
    /\ op' = Ran("startRecordingSession")
    /\ replayWrites' = {}
    /\ IF Loaded(videos) = {}
       THEN /\ alertMsg' = [kind |-> "NoVideos", slots |-> <<>>]
            /\ UNCHANGED <<TimerVars, SessionVars, currentPlaybackVolumes>>
       ELSE IF videosWithoutKeyframes(videos) # <<>>
       THEN /\ alertMsg' = [kind |-> "MissingKeyframe",
                            slots |-> videosWithoutKeyframes(videos)]
            /\ UNCHANGED <<TimerVars, SessionVars, currentPlaybackVolumes>>
       ELSE /\ alertMsg' = alertMsg
            /\ currentSession' = Len(recordingSessions) + 1
            /\ IF recordingSessions # <<>>
               THEN \* startPlaybackMode
                    /\ isPlaybackMode' = TRUE
                    /\ currentPlaybackVolumes' = [s \in Slots |-> Null]
                    /\ playbackStartTime' = now
                    /\ playbackDue' = now + ReplayTickMs
               ELSE UNCHANGED <<isPlaybackMode, currentPlaybackVolumes,
                                playbackStartTime, playbackDue>>
            \* startCountdown
            /\ isCountdown' = TRUE
            /\ countdown' = CountdownFrom
            /\ countdownDue' = now + SecondMs
            /\ UNCHANGED <<isRecording, recordingStartTime, timeLeft, recordingDue>>
    /\ UNCHANGED <<now, used, videos, volSlider, opcSlider, ctlDisabled,
                   lockBtnDisabled, playerVolume, layerOpacity, previewSeek,
                   mainSeek, syncLocks, seekChain, recordingSessions,
                   currentRecordingData, hijackedControls, lastRecordingTime,
                   debounceDue, firstTouch>>

\* leftmost keyframe of a video (Null when none is set)
Leftmost(video) ==
    LET set == {i \in 1 .. NumKeyframes : video.keyframes[i] # Null}
    IN IF set = {} THEN Null
       ELSE video.keyframes[CHOOSE i \in set : \A j \in set : i <= j]

\* startActualRecording, reached from the last countdown tick
StartActualRecording ==
    /\ isRecording' = TRUE
    /\ recordingStartTime' = now
    /\ lastRecordingTime' = [k \in Keys |-> 0]
    /\ IF currentSession > 1
       THEN \* unlockControlsForOverdubbing
            /\ hijackedControls' = {}
            /\ ctlDisabled' = [s \in Slots |-> FALSE]
            /\ lockBtnDisabled' = FALSE
       ELSE UNCHANGED <<hijackedControls, ctlDisabled, lockBtnDisabled>>
    /\ previewSeek' = [s \in Slots |->
           IF videos[s] # NoVideo /\ Leftmost(videos[s]) # Null
           THEN Leftmost(videos[s]) ELSE previewSeek[s]]
    /\ mainSeek' = [s \in Slots |->
           IF videos[s] # NoVideo /\ Leftmost(videos[s]) # Null
           THEN Leftmost(videos[s]) ELSE mainSeek[s]]
    /\ currentRecordingData' =
           [session |-> currentSession, startTime |-> now, duration |-> DurationMs,
            controlData |-> [s \in Loaded(videos) |-> EmptySlotData]]
    /\ timeLeft' = RecordSeconds
    /\ recordingDue' = now + SecondMs
    /\ firstTouch' = [k \in SliderKeys |-> Null]

\* the countdownInterval callback
CountdownTick ==
    /\ UNCHANGED pb
    /\ countdownDue # Null /\ countdownDue <= now
    /\ countdown' = countdown - 1
    /\ op' = Ran("countdownTick")
    /\ replayWrites' = {}
    /\ IF countdown - 1 >= 0
       THEN /\ countdownDue' = countdownDue + SecondMs
            /\ UNCHANGED <<isRecording, isCountdown, recordingStartTime,
                           lastRecordingTime, hijackedControls, ctlDisabled,
                           lockBtnDisabled, previewSeek, mainSeek,
                           currentRecordingData, timeLeft, recordingDue, firstTouch>>
       ELSE /\ countdownDue' = Null
            /\ isCountdown' = FALSE
            /\ StartActualRecording
    /\ UNCHANGED <<now, used, videos, volSlider, opcSlider, playerVolume,
                   layerOpacity, currentPlaybackVolumes, syncLocks, seekChain,
                   isPlaybackMode, playbackStartTime, currentSession,
                   recordingSessions, playbackDue, debounceDue, alertMsg>>

\* stopRecording without its hijackedControls.clear()
StopRecordingKeepsHijacks ==
    /\ isRecording' = FALSE
    /\ recordingDue' = Null
    /\ playbackDue' = Null
    /\ isPlaybackMode' = FALSE
    /\ hijackedControls' = hijackedControls
    /\ currentRecordingData' = [currentRecordingData EXCEPT !.duration = Elapsed]
    /\ recordingSessions' = Append(recordingSessions, currentRecordingData')
    /\ ctlDisabled' = [s \in Slots |-> videos[s] # NoVideo \/ ctlDisabled[s]]
    /\ lockBtnDisabled' = TRUE

\* stopRecording pushing a session that kept none of the window's samples
StopRecordingDropsSamples ==
    /\ isRecording' = FALSE
    /\ recordingDue' = Null
    /\ playbackDue' = Null
    /\ isPlaybackMode' = FALSE
    /\ hijackedControls' = {}
    /\ currentRecordingData' =
           [currentRecordingData EXCEPT
               !.duration = Elapsed,
               !.controlData = [s \in DOMAIN @ |-> EmptySlotData]]
    /\ recordingSessions' = Append(recordingSessions, currentRecordingData')
    /\ ctlDisabled' = [s \in Slots |-> videos[s] # NoVideo \/ ctlDisabled[s]]
    /\ lockBtnDisabled' = TRUE

\* stopRecording
StopRecording ==
    /\ isRecording' = FALSE
    /\ recordingDue' = Null
    /\ playbackDue' = Null
    /\ isPlaybackMode' = FALSE
    /\ hijackedControls' = {}
    /\ currentRecordingData' = [currentRecordingData EXCEPT !.duration = Elapsed]
    /\ recordingSessions' = Append(recordingSessions, currentRecordingData')
    \* lockAllControlsBetweenSessions
    /\ ctlDisabled' = [s \in Slots |-> videos[s] # NoVideo \/ ctlDisabled[s]]
    /\ lockBtnDisabled' = TRUE

\* the recordingInterval callback clearing its interval at 0 without stopRecording
RecordingTickForgetsStop ==
    /\ UNCHANGED pb
    /\ recordingDue # Null /\ recordingDue <= now
    /\ timeLeft' = timeLeft - 1
    /\ op' = [Ran("recordingTick") EXCEPT !.hijacked = hijackedControls,
                                          !.sessions = recordingSessions]
    /\ replayWrites' = {}
    /\ recordingDue' = IF timeLeft - 1 <= 0 THEN Null ELSE recordingDue + SecondMs
    /\ UNCHANGED <<isRecording, playbackDue, isPlaybackMode,
                   hijackedControls, currentRecordingData,
                   recordingSessions, ctlDisabled, lockBtnDisabled>>
    /\ UNCHANGED <<now, used, videos, volSlider, opcSlider, playerVolume,
                   layerOpacity, previewSeek, mainSeek, currentPlaybackVolumes,
                   syncLocks, seekChain, isCountdown, recordingStartTime,
                   playbackStartTime, currentSession, lastRecordingTime,
                   countdown, countdownDue, debounceDue, alertMsg, firstTouch>>

\* the recordingInterval callback
RecordingTick ==
    /\ UNCHANGED pb
    /\ recordingDue # Null /\ recordingDue <= now
    /\ timeLeft' = timeLeft - 1
    /\ op' = [Ran("recordingTick") EXCEPT !.hijacked = hijackedControls,
                                          !.sessions = recordingSessions]
    /\ replayWrites' = {}
    /\ IF timeLeft - 1 <= 0
       THEN StopRecording
       ELSE /\ recordingDue' = recordingDue + SecondMs
            /\ UNCHANGED <<isRecording, playbackDue, isPlaybackMode,
                           hijackedControls, currentRecordingData,
                           recordingSessions, ctlDisabled, lockBtnDisabled>>
    /\ UNCHANGED <<now, used, videos, volSlider, opcSlider, playerVolume,
                   layerOpacity, previewSeek, mainSeek, currentPlaybackVolumes,
                   syncLocks, seekChain, isCountdown, recordingStartTime,
                   playbackStartTime, currentSession, lastRecordingTime,
                   countdown, countdownDue, debounceDue, alertMsg, firstTouch>>

\* the playbackInterval callback of startPlaybackMode
PlaybackTick ==
    /\ UNCHANGED pb
    /\ playbackDue # Null /\ playbackDue <= now
    /\ LET elapsed == now - playbackStartTime
           st == replayAll([volSlider |-> volSlider, opcSlider |-> opcSlider,
                            cpv |-> currentPlaybackVolumes,
                            playerVolume |-> playerVolume,
                            layerOpacity |-> layerOpacity, syncLocks |-> syncLocks,
                            seekChain |-> seekChain, previewSeek |-> previewSeek,
                            writes |-> {}],
                           hijackedControls, videos, recordingSessions, elapsed, now)
       IN /\ volSlider' = st.volSlider
          /\ opcSlider' = st.opcSlider
          /\ currentPlaybackVolumes' = st.cpv
          /\ playerVolume' = st.playerVolume
          /\ layerOpacity' = st.layerOpacity
          /\ syncLocks' = st.syncLocks
          /\ seekChain' = st.seekChain
          /\ previewSeek' = st.previewSeek
          /\ replayWrites' = st.writes
          /\ playbackDue' = IF elapsed >= DurationMs THEN Null
                            ELSE playbackDue + ReplayTickMs
    /\ op' = Ran("playbackTick")
    /\ UNCHANGED <<now, used, videos, ctlDisabled, lockBtnDisabled, mainSeek,
                   SessionVars, recordingSessions, currentRecordingData,
                   hijackedControls, lastRecordingTime, countdown, countdownDue,
                   timeLeft, recordingDue, debounceDue, alertMsg, firstTouch>>

\* ------------------------------------------------------------------ clock
PendingDues ==
    ({countdownDue, recordingDue, playbackDue}
       \cup {debounceDue[k] : k \in SliderKeys}
       \cup {seekChain[s].due : s \in Slots}) \ {Null}

Advance ==
    /\ UNCHANGED pb
    /\ PendingDues # {}
    /\ \A d \in PendingDues : d > now
    /\ now' = now + Quantum
    /\ op' = Ran("advance")
    /\ replayWrites' = {}
    /\ UNCHANGED <<used, videos, volSlider, opcSlider, ctlDisabled,
                   lockBtnDisabled, playerVolume, layerOpacity, previewSeek,
                   mainSeek, currentPlaybackVolumes, syncLocks, seekChain,
                   SessionVars, recordingSessions, currentRecordingData,
                   hijackedControls, lastRecordingTime, TimerVars, debounceDue,
                   alertMsg, firstTouch>>

Next ==
    \/ \E s \in Slots, v \in LiveValues : UpdateVolume(s, v)
    \/ \E s \in Slots, v \in LiveValues : UpdateOpacity(s, v)
    \/ \E s \in Slots, c \in SliderControls : SliderDebounced(s, c)
    \/ \E s \in Slots : ToggleLink(s)
    \/ \E s \in Slots : ToggleVolumeOpacityLink(s)
    \/ \E s \in Slots : ToggleLock(s)
    \/ \E s \in Slots, k \in KeyframeIndexes, t \in KeyTimes : SetKeyframe(s, k, t)
    \/ \E s \in Slots, k \in KeyframeIndexes : DeleteKeyframe(s, k)
    \/ \E s \in Slots, k \in KeyframeIndexes : JumpToKeyframe(s, k)
    \/ \E s \in Slots : SeekChainStep(s)
    \/ StartRecordingSession
    \/ CountdownTick
    \/ RecordingTick
    \/ PlaybackTick
    \/ Advance

Spec == Init /\ [][Next]_vars

\* Browser timers fire: a callback that is due runs, and time passes while
\* timers are pending.
Fairness ==
    /\ WF_vars(CountdownTick)
    /\ WF_vars(RecordingTick)
    /\ WF_vars(PlaybackTick)
    /\ WF_vars(Advance)
    /\ \A s \in Slots : WF_vars(SeekChainStep(s))
    /\ \A s \in Slots, c \in SliderControls : WF_vars(SliderDebounced(s, c))

\* One track (slot 1, slot 0 left empty) through its takes: the timers, the
\* record button, and the gestures that can add a sample to a session.
InitFair ==
    /\ Init
    /\ videos = [s \in Slots |-> IF s = 0 THEN NoVideo ELSE Track(s, 5, FALSE, FALSE)]

NextFair ==
    \/ \E s \in Slots, v \in LiveValues : UpdateVolume(s, v)
    \/ \E s \in Slots, v \in LiveValues : UpdateOpacity(s, v)
    \/ \E s \in Slots, c \in SliderControls : SliderDebounced(s, c)
    \/ \E s \in Slots, k \in KeyframeIndexes : JumpToKeyframe(s, k)
    \/ \E s \in Slots : SeekChainStep(s)
    \/ StartRecordingSession
    \/ CountdownTick
    \/ RecordingTick
    \/ PlaybackTick
    \/ Advance

SpecFair == InitFair /\ [][NextFair]_vars /\ Fairness

\* ================================================================ claims
\* samples a finalized session holds for a key
StoredLog(sessions, i, k) ==
    IF k[1] \in DOMAIN sessions[i].controlData
    THEN sessions[i].controlData[k[1]][k[2]] ELSE <<>>

\* the in-progress session's log of a key
LiveLog(data, k) ==
    IF k[1] \in DOMAIN data.controlData THEN data.controlData[k[1]][k[2]] ELSE <<>>

SliderValue(vol, opc, k) == IF k[2] = "volume" THEN vol[k[1]] ELSE opc[k[1]]

\* C1: in an overdub session, once a replay-driven slider has been touched at
\* elapsed time t, no replay tick writes that control any more, and (once the
\* touch has been handled to its end) no finalized session holds a sample of
\* that control with timestamp >= t.
C1_FirstTouchTakesOver ==
    \A k \in SliderKeys :
        (isRecording /\ isPlaybackMode /\ firstTouch[k] # Null) =>
            /\ k \notin replayWrites
            /\ debounceDue[k] = Null =>
                 \A i \in 1 .. Len(recordingSessions) :
                     \A j \in 1 .. Len(StoredLog(recordingSessions, i, k)) :
                         StoredLog(recordingSessions, i, k)[j].timestamp < firstTouch[k]

\* C3: no replay-driven write (slider, player volume, layer opacity or seek,
\* a seek fired by the timer of an earlier tick included) reaches a control
\* that is in the Hijack Set.
C3_NoReplayWriteOnHijacked == replayWrites \cap hijackedControls = {}

\* C4: once a slider is in the Hijack Set, every later live change of its value
\* made by a user gesture while recording, the 25 ms throttle permitting, is
\* appended to the in-progress session's log of that same control.
C4_LiveChangesRecorded ==
    [][\A k \in SliderKeys :
          (/\ isRecording /\ k \in hijackedControls
           /\ op'.name \in {"updateVolume", "updateOpacity"}
           /\ SliderValue(volSlider', opcSlider', k) # SliderValue(volSlider, opcSlider, k)
           /\ now - lastRecordingTime[k] >= ThrottleMs
           /\ now - lastRecordingTime[op'.key] >= ThrottleMs)
          => /\ Len(LiveLog(currentRecordingData', k))
                  = Len(LiveLog(currentRecordingData, k)) + 1
             /\ LiveLog(currentRecordingData', k)
                    [Len(LiveLog(currentRecordingData', k))].value
                  = SliderValue(volSlider', opcSlider', k)]_vars

\* C8: a call of hijackControl for a control that is already in the Hijack Set
\* leaves the Hijack Set and every finalized session as they were, whatever
\* the link and lock flags are by then.
C8_SecondHijackNoOp ==
    [][(op'.called /\ op'.key \in hijackedControls)
          => /\ hijackedControls' = hijackedControls
             /\ recordingSessions' = recordingSessions]_vars

C8_Witness ==
    /\ op.called /\ op.key \in op.hijacked
    /\ op.name = "sliderDebounced"
    /\ isRecording /\ isPlaybackMode

\* C9: the Hijack Set is non-empty only in playback mode; it is empty when a
\* recording window opens, loses no element while the window is open, and is
\* empty once stopRecording has run.
C9_HijackSetLifecycle ==
    /\ [](hijackedControls # {} => isPlaybackMode)
    /\ [][/\ (~isRecording /\ isRecording') => hijackedControls' = {}
          /\ (isRecording /\ isRecording') => hijackedControls \subseteq hijackedControls'
          /\ (isRecording /\ ~isRecording') => hijackedControls' = {}]_vars

C9_Witness ==
    /\ op.name = "recordingTick" /\ ~isRecording
    /\ op.hijacked # {} /\ hijackedControls = {}
    /\ Len(recordingSessions) = 2

\* C10: startRecordingSession with a loaded track whose three keyframes are all
\* unset changes no flag, timer, session or counter, and its alert names
\* exactly the slots (by their 1-based number) of the tracks lacking a keyframe.
Lacking(vids) ==
    {s \in Slots : vids[s] # NoVideo
                     /\ \A i \in 1 .. NumKeyframes : vids[s].keyframes[i] = Null}

C10_MissingKeyframeRefused ==
    [][(op'.name = "startRecordingSession" /\ Lacking(videos) # {})
          => /\ UNCHANGED <<isRecording, isCountdown, isPlaybackMode,
                            recordingSessions, currentSession, currentRecordingData,
                            countdownDue, recordingDue, playbackDue, hijackedControls>>
             /\ alertMsg'.kind = "MissingKeyframe"
             /\ Len(alertMsg'.slots) = Cardinality(Lacking(videos))
             /\ {alertMsg'.slots[i] : i \in DOMAIN alertMsg'.slots}
                    = {s + 1 : s \in Lacking(videos)}]_vars

C10_Witness ==
    /\ op.name = "startRecordingSession"
    /\ alertMsg.kind = "MissingKeyframe"
    /\ Lacking(videos) = {1} /\ videos[0] = NoVideo
    /\ ~isCountdown /\ ~isRecording /\ recordingSessions = <<>>

\* ========================================================= playback page
\* Saving on the create page, and the playback page (playback.js) replaying
\* what was saved.  Compositions here hold slider samples only; a log of
\* keyframe events is empty and playbackTimestampData returns at once on it.
PbFallbackVolume == 50
PbDirectDiff == 5
PbStep == 3
CompositionDuration == 60000
MaxReplayMs == 2000       \* the replayers are driven up to this elapsed time

\* JSON.stringify turns the integer keys of controlData into strings and
\* parseInt turns them back
Digits == <<"0", "1", "2", "3", "4", "5", "6", "7", "8", "9">>
KeyOf(slot) == Digits[slot + 1]
parseInt(key) == CHOOSE n \in 0 .. 9 : Digits[n + 1] = key

stringifySession(session) ==
    [session EXCEPT !.controlData =
        [k \in {KeyOf(s) : s \in DOMAIN session.controlData} |->
            session.controlData[parseInt(k)]]]

\* videos.filter(v => v !== null).map(...): the loaded videos, in slot order
savedVideos(vids) ==
    LET order == SortedSeq(Loaded(vids))
    IN [i \in 1 .. Len(order) |->
           [videoId |-> vids[order[i]].videoId, keyframes |-> vids[order[i]].keyframes]]

saveCompositionWithThumbnailSilent(vids, sessions) ==
    [videos |-> savedVideos(vids),
     sessions |-> [i \in 1 .. Len(sessions) |-> stringifySession(sessions[i])],
     duration |-> CompositionDuration]

\* loadVideoForPlayback(slot, videoData) and the players' onReady
loadVideoForPlayback(p, slot, videoData) ==
    [p EXCEPT !.videos[slot] = [videoId |-> videoData.videoId,
                                keyframes |-> videoData.keyframes,
                                volume |-> DefaultVolume, opacity |-> DefaultOpacity],
              !.mainVolume[slot] = DefaultVolume,
              !.layerOpacity[slot] = DefaultOpacity]

\* currentArtPiece.videos.forEach((videoData, index) => loadVideoForPlayback(index, ...))
setupPlaybackInterface(p) ==
    LET Step[i \in 0 .. Len(p.piece.videos)] ==
            IF i = 0 THEN [p EXCEPT !.videos = [s \in Slots |-> NoVideo]]
            ELSE loadVideoForPlayback(Step[i - 1], i - 1, p.piece.videos[i])
    IN [Step[Len(p.piece.videos)] EXCEPT !.loaded = TRUE]

pb_applyVolumeSmooth(p, slot, targetVolume) ==
    IF p.videos[slot] = NoVideo \/ slot \in p.seekingSlots THEN p ELSE
    LET currentVolume == IF p.cpv[slot] = Null THEN PbFallbackVolume ELSE p.cpv[slot]
        volumeDiff == Abs(targetVolume - currentVolume)
        step == Min(PbStep, volumeDiff)
        nextVolume == currentVolume
                        + (IF targetVolume > currentVolume THEN step ELSE -step)
        clampedVolume == IF targetVolume > currentVolume
                         THEN Min(nextVolume, targetVolume)
                         ELSE Max(nextVolume, targetVolume)
        applied == IF volumeDiff <= PbDirectDiff THEN targetVolume ELSE clampedVolume
    IN [p EXCEPT !.cpv[slot] = applied, !.mainVolume[slot] = applied]

\* the value both loops of playback.js pick: the first sample's, replaced by
\* each later sample whose timestamp has passed, up to the first that has not
heldValue(data, currentTime) ==
    LET n == FirstAfter(data, currentTime)
    IN IF n = 1 THEN data[1].value ELSE data[n - 1].value

pb_playbackVolumeData(p, slot, volumeData, currentTime) ==
    IF volumeData = <<>> THEN p
    ELSE pb_applyVolumeSmooth(p, slot, heldValue(volumeData, currentTime))

pb_playbackOpacityData(p, slot, opacityData, currentTime) ==
    IF opacityData = <<>> THEN p
    ELSE [p EXCEPT !.layerOpacity[slot] = heldValue(opacityData, currentTime)]

performSmoothSeek(p, slot, targetTime, nowMs) ==
    IF slot \in p.seekingSlots THEN p
    ELSE [p EXCEPT !.seekingSlots = @ \cup {slot},
                   !.seek[slot] = IF p.videos[slot] # NoVideo THEN targetTime ELSE @,
                   !.unlockDue[slot] = nowMs + PbSeekLockMs]

\* playbackTimestampData of playback.js: timestampData.forEach(entry => ...)
pb_playbackTimestampData(p, slot, timestampData, currentTime, nowMs) ==
    LET Step[i \in 0 .. Len(timestampData)] ==
            IF i = 0 THEN p
            ELSE LET entry == timestampData[i]
                     q == Step[i - 1]
                 IN IF Abs(entry.timestamp - currentTime) < PbJumpWindowMs
                       /\ entry.action = "jump" /\ entry.time # Null
                    THEN IF q.lastSeekTime[<<slot, entry.time>>] # Null
                            /\ nowMs - q.lastSeekTime[<<slot, entry.time>>] < PbSeekDebounceMs
                         THEN q
                         ELSE performSmoothSeek(
                                  [q EXCEPT !.lastSeekTime[<<slot, entry.time>>] = nowMs],
                                  slot, entry.time, nowMs)
                    ELSE q
    IN Step[Len(timestampData)]

\* playbackSessionData of playback.js: Object.keys in ascending order; the
\* sliders of a slot are served only when mainPlayers[slot] exists, its
\* keyframe events always.  Date.now() in a tick is playbackStartTime plus the
\* playback time.
pb_playbackSessionData(p, session, currentTime) ==
    LET Step[s \in -1 .. 9] ==
            IF s = -1 THEN p
            ELSE IF KeyOf(s) \in DOMAIN session.controlData /\ s \in Slots
                 THEN LET slotData == session.controlData[KeyOf(s)]
                          q == Step[s - 1]
                          a == IF q.videos[s] # NoVideo
                               THEN pb_playbackVolumeData(q, s, slotData.volume, currentTime)
                               ELSE q
                          b == IF q.videos[s] # NoVideo
                               THEN pb_playbackOpacityData(a, s, slotData.opacity, currentTime)
                               ELSE a
                      IN pb_playbackTimestampData(b, s, slotData.timestamps,
                                                  currentTime, p.start + currentTime)
                 ELSE Step[s - 1]
    IN Step[9]

applyRecordedDataAtTime(p, currentTime) ==
    LET Step[i \in 0 .. Len(p.piece.sessions)] ==
            IF i = 0 THEN p
            ELSE pb_playbackSessionData(Step[i - 1], p.piece.sessions[i], currentTime)
    IN Step[Len(p.piece.sessions)]

\* updatePlaybackTime at playbackCurrentTime = timeMs
updatePlaybackTime(p, timeMs) ==
    IF timeMs >= CompositionDuration THEN [p EXCEPT !.time = CompositionDuration]
    ELSE applyRecordedDataAtTime([p EXCEPT !.time = timeMs], timeMs)

\* ------------------------------------------ stored takes and the replayers
Sample(t, v) == [timestamp |-> t, value |-> v]

VolumeLogs ==
    { <<>>, <<Sample(0, 50), Sample(1000, 80)>>, <<Sample(100, 20)>>,
      <<Sample(0, 50), Sample(400, 90)>> }
OpacityLogs == { <<>>, <<Sample(150, 40)>>, <<Sample(300, 0), Sample(1500, 100)>> }

\* the tracks on the page: slot 0 alone, slot 1 alone (slot 0 left empty), both
Occupancies ==
    { [s \in Slots |-> IF s \in L THEN Track(s, 5, FALSE, FALSE) ELSE NoVideo] :
        L \in {{0}, {1}, {0, 1}} }

\* one finalized take over the loaded tracks: the lowest loaded slot draws its
\* slider logs freely, the others carry one fixed pair of logs or none
StoredTakes(vids) ==
    LET low == CHOOSE s \in Loaded(vids) : \A u \in Loaded(vids) : s <= u
    IN { << [session |-> 1, startTime |-> Epoch, duration |-> DurationMs,
             controlData |->
                 [s \in Loaded(vids) |->
                     IF s = low
                     THEN [volume |-> v, opacity |-> o, timestamps |-> <<>>]
                     ELSE IF more
                          THEN [volume |-> <<Sample(100, 20)>>,
                                opacity |-> <<Sample(150, 40)>>, timestamps |-> <<>>]
                          ELSE EmptySlotData]] >> :
         v \in VolumeLogs, o \in OpacityLogs, more \in BOOLEAN }

\* The create page just after startRecordingSession has called startPlaybackMode
\* and startCountdown for an overdub over a stored take.
InitReplay ==
    /\ now = Epoch
    /\ used = 0
    /\ videos \in Occupancies
    /\ recordingSessions \in StoredTakes(videos)
    /\ volSlider = [s \in Slots |-> DefaultVolume]
    /\ opcSlider = [s \in Slots |-> DefaultOpacity]
    /\ ctlDisabled = [s \in Slots |-> videos[s] # NoVideo]
    /\ lockBtnDisabled = TRUE
    /\ playerVolume = [s \in Slots |-> DefaultVolume]
    /\ layerOpacity = [s \in Slots |-> DefaultOpacity]
    /\ previewSeek = [s \in Slots |-> Null]
    /\ mainSeek = [s \in Slots |-> Null]
    /\ currentPlaybackVolumes = [s \in Slots |-> Null]
    /\ syncLocks = [s \in Slots |-> FALSE]
    /\ seekChain = [s \in Slots |-> NoChain]
    /\ isRecording = FALSE
    /\ isCountdown = TRUE
    /\ isPlaybackMode = TRUE
    /\ recordingStartTime = Epoch
    /\ playbackStartTime = now
    /\ currentSession = 2
    /\ currentRecordingData = recordingSessions[1]
    /\ hijackedControls = {}
    /\ lastRecordingTime = [k \in Keys |-> 0]
    /\ countdown = CountdownFrom
    /\ countdownDue = now + SecondMs
    /\ timeLeft = 0
    /\ recordingDue = Null
    /\ playbackDue = now + ReplayTickMs
    /\ debounceDue = [k \in SliderKeys |-> Null]
    /\ alertMsg = NoAlert
    /\ op = Ran("startRecordingSession")
    /\ replayWrites = {}
    /\ firstTouch = [k \in SliderKeys |-> Null]
    /\ pb = NoPlayback

\* what none of the steps below touches
ReplayFrame ==
    <<used, videos, ctlDisabled, lockBtnDisabled, mainSeek, isRecording,
      isCountdown, isPlaybackMode, recordingStartTime, playbackStartTime,
      currentSession, recordingSessions, currentRecordingData, hijackedControls,
      lastRecordingTime, countdown, countdownDue, timeLeft, recordingDue,
      debounceDue, alertMsg, firstTouch>>

\* the playbackInterval callback of startPlaybackMode at its next firing
ReplayTick ==
    /\ isPlaybackMode
    /\ now + ReplayTickMs - playbackStartTime <= MaxReplayMs
    /\ now' = now + ReplayTickMs
    /\ LET elapsed == now' - playbackStartTime
           st == replayAll([volSlider |-> volSlider, opcSlider |-> opcSlider,
                            cpv |-> currentPlaybackVolumes,
                            playerVolume |-> playerVolume,
                            layerOpacity |-> layerOpacity, syncLocks |-> syncLocks,
                            seekChain |-> seekChain, previewSeek |-> previewSeek,
                            writes |-> {}],
                           hijackedControls, videos, recordingSessions, elapsed, now')
       IN /\ volSlider' = st.volSlider
          /\ opcSlider' = st.opcSlider
          /\ currentPlaybackVolumes' = st.cpv
          /\ playerVolume' = st.playerVolume
          /\ layerOpacity' = st.layerOpacity
          /\ syncLocks' = st.syncLocks
          /\ seekChain' = st.seekChain
          /\ previewSeek' = st.previewSeek
          /\ replayWrites' = st.writes
    /\ playbackDue' = now' + ReplayTickMs
    /\ op' = Ran("replayTick")
    /\ UNCHANGED <<ReplayFrame, pb>>

CreateSide ==
    <<now, volSlider, opcSlider, playerVolume, layerOpacity, previewSeek,
      currentPlaybackVolumes, syncLocks, seekChain, playbackDue>>

\* the save button
SaveComposition ==
    /\ pb.piece = NoPiece
    /\ pb' = [pb EXCEPT !.piece =
                 saveCompositionWithThumbnailSilent(videos, recordingSessions)]
    /\ op' = Ran("saveComposition")
    /\ replayWrites' = {}
    /\ UNCHANGED <<ReplayFrame, CreateSide>>

\* the playback page opens the saved composition
SetupPlayback ==
    /\ pb.piece # NoPiece /\ ~pb.loaded
    /\ pb' = setupPlaybackInterface(pb)
    /\ op' = Ran("setupPlaybackInterface")
    /\ replayWrites' = {}
    /\ UNCHANGED <<ReplayFrame, CreateSide>>

\* the playback page's interval callback, run at the next elapsed time of the
\* sequence the create-page replayer is run over
PlaybackPageTick ==
    /\ pb.loaded
    /\ pb.time + ReplayTickMs <= MaxReplayMs
    /\ pb' = updatePlaybackTime(pb, pb.time + ReplayTickMs)
    /\ op' = Ran("updatePlaybackTime")
    /\ replayWrites' = {}
    /\ UNCHANGED <<ReplayFrame, CreateSide>>

NextReplay ==
    \/ ReplayTick
    \/ SaveComposition
    \/ SetupPlayback
    \/ PlaybackPageTick

SpecReplay == InitReplay /\ [][NextReplay]_vars

ReplayElapsed == now - playbackStartTime

\* ------------------------------------------------ truncating stored takes
JumpEvent(t, k, pos) ==
    [timestamp |-> t, action |-> "jump", keyframeIndex |-> k, time |-> pos]

SliderLogs ==
    { <<>>, <<Sample(100, 20)>>, <<Sample(0, 50), Sample(100, 20), Sample(200, 80)>> }
TruncTimes == {0, 100, 150, 250}

\* one or two finalized takes of two tracks
TruncTakes ==
    LET first(v, o, j) ==
            [session |-> 1, startTime |-> Epoch, duration |-> DurationMs,
             controlData |->
                 [s \in Slots |->
                     IF s = 0
                     THEN [volume |-> v, opacity |-> o,
                           timestamps |-> IF j THEN <<JumpEvent(100, 0, 5)>> ELSE <<>>]
                     ELSE [volume |-> <<Sample(100, 20)>>, opacity |-> <<>>,
                           timestamps |-> <<>>]]]
        second ==
            [session |-> 2, startTime |-> Epoch + 2 * DurationMs, duration |-> DurationMs,
             controlData |->
                 [s \in Slots |->
                     IF s = 0
                     THEN [volume |-> <<Sample(50, 10), Sample(150, 60)>>,
                           opacity |-> <<>>, timestamps |-> <<>>]
                     ELSE EmptySlotData]]
    IN { IF two THEN <<first(v, o, j), second>> ELSE <<first(v, o, j)>> :
           v \in SliderLogs, o \in {<<>>, <<Sample(100, 40)>>},
           j \in BOOLEAN, two \in BOOLEAN }

\* The create page at the instant the recording window of an overdub over
\* stored takes has opened: the replay tick of that instant has run and the
\* user has then moved the volume of track 0 to 0.
ReplayedOnce(sessions, vids, nowMs) ==
    replayAll([volSlider |-> [s \in Slots |-> DefaultVolume],
               opcSlider |-> [s \in Slots |-> DefaultOpacity],
               cpv |-> [s \in Slots |-> Null],
               playerVolume |-> [s \in Slots |-> DefaultVolume],
               layerOpacity |-> [s \in Slots |-> DefaultOpacity],
               syncLocks |-> [s \in Slots |-> FALSE],
               seekChain |-> [s \in Slots |-> NoChain],
               previewSeek |-> [s \in Slots |-> 5], writes |-> {}],
              {}, vids, sessions, ReplayTickMs, nowMs)

InitTruncate ==
    /\ recordingSessions \in TruncTakes
    /\ recordingStartTime = Epoch + 4 * DurationMs
    /\ now = recordingStartTime
    /\ playbackStartTime = recordingStartTime - ReplayTickMs
    /\ used = 1
    /\ videos = [s \in Slots |->
           IF s = 0 THEN [Track(s, 5, FALSE, FALSE) EXCEPT !.volume = 0]
           ELSE Track(s, 5, FALSE, FALSE)]
    /\ LET st == ReplayedOnce(recordingSessions,
                              [s \in Slots |-> Track(s, 5, FALSE, FALSE)], now)
       IN /\ volSlider = [st.volSlider EXCEPT ![0] = 0]
          /\ opcSlider = st.opcSlider
          /\ playerVolume = [st.playerVolume EXCEPT ![0] = 0]
          /\ layerOpacity = st.layerOpacity
          /\ previewSeek = st.previewSeek
          /\ currentPlaybackVolumes = st.cpv
          /\ syncLocks = st.syncLocks
          /\ seekChain = st.seekChain
    /\ ctlDisabled = [s \in Slots |-> FALSE]
    /\ lockBtnDisabled = FALSE
    /\ mainSeek = [s \in Slots |-> 5]
    /\ isRecording = TRUE
    /\ isCountdown = FALSE
    /\ isPlaybackMode = TRUE
    /\ currentSession = Len(recordingSessions) + 1
    /\ currentRecordingData =
           [session |-> currentSession, startTime |-> recordingStartTime,
            duration |-> DurationMs,
            controlData |-> [s \in Slots |->
                IF s = 0 THEN [EmptySlotData EXCEPT !.volume = <<Sample(0, 0)>>]
                ELSE EmptySlotData]]
    /\ hijackedControls = {}
    /\ lastRecordingTime = [k \in Keys |-> IF k = <<0, "volume">> THEN now ELSE 0]
    /\ countdown = 0 - 1
    /\ countdownDue = Null
    /\ timeLeft = RecordSeconds
    /\ recordingDue = now + SecondMs
    /\ playbackDue = now + ReplayTickMs
    /\ debounceDue = [k \in SliderKeys |->
           IF k = <<0, "volume">> THEN now + DebounceMs ELSE Null]
    /\ alertMsg = NoAlert
    /\ op = [name |-> "updateVolume", key |-> <<0, "volume">>, called |-> FALSE,
             time |-> 0, hijacked |-> {}, sessions |-> recordingSessions]
    /\ replayWrites = {}
    /\ firstTouch = [k \in SliderKeys |-> IF k = <<0, "volume">> THEN 0 ELSE Null]
    /\ pb = NoPlayback

\* hijackControl's call deleteFutureRecordingData(slot, controlType, fromTime)
DeleteFuture(slot, controlType, fromTime) ==
    /\ recordingSessions' =
           deleteFutureRecordingData(recordingSessions, slot, controlType, fromTime)
    /\ op' = [Ran("deleteFutureRecordingData") EXCEPT
                 !.key = <<slot, controlType>>, !.time = fromTime,
                 !.sessions = recordingSessions]
    /\ replayWrites' = {}
    /\ UNCHANGED <<now, used, videos, volSlider, opcSlider, ctlDisabled,
                   lockBtnDisabled, playerVolume, layerOpacity, previewSeek, mainSeek,
                   currentPlaybackVolumes, syncLocks, seekChain, SessionVars,
                   currentRecordingData, hijackedControls, lastRecordingTime,
                   TimerVars, debounceDue, alertMsg, firstTouch, pb>>

NextTruncate ==
    \E slot \in Slots, controlType \in Controls, fromTime \in TruncTimes :
        DeleteFuture(slot, controlType, fromTime)

SpecTruncate == InitTruncate /\ [][NextTruncate]_vars

\* =========================================== claims on the stored takes
\* the samples of old with timestamp < t, in their order
KeptPart(old, t) ==
    LET idx == {j \in 1 .. Len(old) : old[j].timestamp < t}
        nth(n) == CHOOSE j \in idx : Cardinality({i \in idx : i < j}) = n - 1
    IN [n \in 1 .. Cardinality(idx) |-> old[nth(n)]]

\* C2: after deleteFutureRecordingData(slot, controlType, t) no finalized
\* session holds a sample of that key with timestamp >= t, the samples with
\* timestamp < t are all kept with their values and order, every other log and
\* the in-progress session are unchanged, and the same call again does nothing.
C2_TruncationContract ==
    [][op'.name = "deleteFutureRecordingData" =>
        LET k == op'.key
            t == op'.time
        IN /\ Len(recordingSessions') = Len(recordingSessions)
           /\ \A i \in 1 .. Len(recordingSessions) :
                /\ \A j \in 1 .. Len(StoredLog(recordingSessions', i, k)) :
                       StoredLog(recordingSessions', i, k)[j].timestamp < t
                /\ StoredLog(recordingSessions', i, k)
                       = KeptPart(StoredLog(recordingSessions, i, k), t)
                /\ \A k2 \in Keys \ {k} :
                       StoredLog(recordingSessions', i, k2)
                           = StoredLog(recordingSessions, i, k2)
                /\ recordingSessions'[i].session = recordingSessions[i].session
                /\ recordingSessions'[i].duration = recordingSessions[i].duration
           /\ currentRecordingData' = currentRecordingData
           /\ deleteFutureRecordingData(recordingSessions', k[1], k[2], t)
                  = recordingSessions']_vars

C2_Witness ==
    /\ op.name = "deleteFutureRecordingData"
    /\ \E i \in 1 .. Len(recordingSessions) :
          /\ Len(StoredLog(recordingSessions, i, op.key)) > 0
          /\ Len(StoredLog(recordingSessions, i, op.key))
                < Len(StoredLog(op.sessions, i, op.key))
    /\ LiveLog(currentRecordingData, <<0, "volume">>) # <<>>

\* every track sits on the playback page in the slot it was recorded in
SlotsKept ==
    \A s \in Loaded(videos) :
        pb.videos[s] # NoVideo /\ pb.videos[s].videoId = videos[s].videoId

\* C5: run over the same elapsed times, the playback page applies to every
\* track of a saved composition (here: one whose tracks kept their slots) the
\* volume and opacity the create-page replayer applies to it from the
\* sessions the composition was saved from.
C5_SameAppliedValues ==
    (pb.loaded /\ SlotsKept /\ pb.time = ReplayElapsed) =>
        \A s \in Loaded(videos) :
            /\ pb.mainVolume[s] = playerVolume[s]
            /\ pb.layerOpacity[s] = layerOpacity[s]

\* C6: on the playback page every track sits in the slot it was recorded in,
\* so the control data stored under slot s meets the media of slot s.
C6_SlotKept == pb.loaded => SlotsKept

\* the take of C7: volume samples (0, 50) and (1000, 80) for slot 0
C7_Case ==
    /\ Len(recordingSessions) = 1
    /\ 0 \in DOMAIN recordingSessions[1].controlData
    /\ recordingSessions[1].controlData[0].volume = <<Sample(0, 50), Sample(1000, 80)>>
    /\ op.name = "replayTick"

\* C7 as the spec words it: at elapsed 500 the replayer's volume target lies
\* strictly between 50 and 80, at elapsed 2000 it is 80.
C7_InterpolatedAt500 ==
    C7_Case =>
        /\ ReplayElapsed = 500 => (50 < volSlider[0] /\ volSlider[0] < 80)
        /\ ReplayElapsed = 2000 => volSlider[0] = 80

\* C7 as the code has it: the two samples are 1000 ms apart, which is not
\* below the 500 ms interpolation gap, so at elapsed 500 the target is still
\* 50; at elapsed 2000 it is 80; and for any log the target at or after the
\* last sample's timestamp is the last sample's value.
C7_HeldThenLast ==
    /\ C7_Case =>
         /\ ReplayElapsed = 500 => volSlider[0] = 50
         /\ ReplayElapsed = 2000 => volSlider[0] = 80
    /\ op.name = "replayTick" =>
         \A s \in Loaded(videos) :
            LET log == recordingSessions[1].controlData[s].volume
            IN (log # <<>> /\ ReplayElapsed >= log[Len(log)].timestamp)
                  => volSlider[s] = log[Len(log)].value

C7_Witness == C7_Case /\ ReplayElapsed = 500 /\ volSlider[0] = 50

\* ==================================================== claims on the timers
\* C11: with timers firing, an open recording window is always finalized by
\* the recording timer and a running replay loop always stops; the replay tick
\* that finds its elapsed time at the window length or beyond is the last
\* one; and the logs of a finalized session never gain a sample.
C11_SelfTerminates ==
    /\ isRecording ~> ~isRecording
    /\ (playbackDue # Null) ~> (playbackDue = Null)
    /\ [][/\ (op'.name = "playbackTick" /\ now - playbackStartTime >= DurationMs)
                => playbackDue' = Null
          /\ (isRecording /\ ~isRecording')
                => /\ op'.name = "recordingTick"
                   /\ Len(recordingSessions') = Len(recordingSessions) + 1
          /\ \A i \in 1 .. Len(recordingSessions) : \A k \in Keys :
                \A j \in 1 .. Len(StoredLog(recordingSessions', i, k)) :
                    \E m \in 1 .. Len(StoredLog(recordingSessions, i, k)) :
                        StoredLog(recordingSessions', i, k)[j]
                            = StoredLog(recordingSessions, i, k)[m]]_vars

\* two takes finalized by the timer with no slider or keyframe gesture made,
\* the replay loop of the second having stopped by itself before
C11_Witness ==
    /\ op.name = "recordingTick" /\ ~isRecording
    /\ used = 0 /\ Len(recordingSessions) = 2
    /\ playbackDue = Null /\ recordingDue = Null

\* ================================================ sliders, links and locks
\* The page before the first take, where sliders, link buttons and lock
\* buttons are all live and no handler reads the clock: any number of
\* gestures, in any order.
BenchValues == {0, 100}

BenchFrame ==
    <<now, used, lockBtnDisabled, alertMsg, firstTouch, currentRecordingData,
      lastRecordingTime, TimerVars, ReplayVars, SessionVars, pb>>

InitLinks ==
    /\ Init
    /\ videos = [s \in Slots |-> Track(s, 5, TRUE, FALSE)]

\* oninput of vol-<slot>: updateVolume(slot, value)
SlideVolume(slot, value) ==
    /\ ~isRecording
    /\ videos[slot] # NoVideo /\ ~ctlDisabled[slot]
    /\ value # volSlider[slot]
    /\ SetPage(updateVolumeImmediate([Page EXCEPT !.volSlider[slot] = value],
                                     isPlaybackMode, slot, value, Elapsed))
    /\ debounceDue' = [debounceDue EXCEPT ![<<slot, "volume">>] = now + DebounceMs]
    /\ op' = RanOn("updateVolume", slot, "volume", FALSE)
    /\ replayWrites' = {}
    /\ UNCHANGED <<BenchFrame, ctlDisabled>>

\* oninput of opc-<slot>: updateOpacity(slot, value)
SlideOpacity(slot, value) ==
    /\ ~isRecording
    /\ videos[slot] # NoVideo /\ ~ctlDisabled[slot]
    /\ value # opcSlider[slot]
    /\ SetPage(updateOpacityImmediate([Page EXCEPT !.opcSlider[slot] = value],
                                      isPlaybackMode, slot, value, Elapsed))
    /\ debounceDue' = [debounceDue EXCEPT ![<<slot, "opacity">>] = now + DebounceMs]
    /\ op' = RanOn("updateOpacity", slot, "opacity", FALSE)
    /\ replayWrites' = {}
    /\ UNCHANGED <<BenchFrame, ctlDisabled>>

\* toggleLink, toggleVolumeOpacityLink, toggleLock
FlipFlag(slot, flag) ==
    /\ videos[slot] # NoVideo
    /\ flag = "linked" => (~ctlDisabled[slot] /\ ~videos[slot].locked)
    /\ flag = "volumeOpacityLinked" => ~videos[slot].locked
    /\ flag = "locked" => ~lockBtnDisabled
    /\ videos' =
          IF flag = "linked" THEN [videos EXCEPT ![slot].linked = ~@]
          ELSE IF flag = "volumeOpacityLinked"
          THEN [videos EXCEPT ![slot].volumeOpacityLinked = ~@]
          ELSE [videos EXCEPT
                   ![slot].volumeOpacityLinked = IF ~videos[slot].locked THEN FALSE ELSE @,
                   ![slot].locked = ~@]
    /\ ctlDisabled' = IF flag = "locked"
                      THEN [ctlDisabled EXCEPT ![slot] = ~videos[slot].locked]
                      ELSE ctlDisabled
    /\ op' = Ran(flag)
    /\ replayWrites' = {}
    /\ UNCHANGED <<BenchFrame, volSlider, opcSlider, playerVolume, layerOpacity,
                   recordingSessions, hijackedControls, debounceDue>>

NextLinks ==
    \/ \E s \in Slots, v \in BenchValues : SlideVolume(s, v)
    \/ \E s \in Slots, v \in BenchValues : SlideOpacity(s, v)
    \/ \E s \in Slots, f \in {"linked", "volumeOpacityLinked", "locked"} :
          FlipFlag(s, f)

SpecLinks == InitLinks /\ [][NextLinks]_vars

Percent == 0 .. 100

\* C12: every loaded track's volume and opacity, and the slider, player and
\* layer values that show them, lie in 0..100 whatever sliders are moved and
\* whatever the link, volume-opacity link and lock flags are.
C12_ValuesInRange ==
    \A s \in Loaded(videos) :
        /\ videos[s].volume \in Percent /\ videos[s].opacity \in Percent
        /\ volSlider[s] \in Percent /\ opcSlider[s] \in Percent
        /\ playerVolume[s] \in Percent /\ layerOpacity[s] \in Percent

\* a volume move to 100 on a track linked both ways, which pushed its own
\* opacity and the other track's volume to the upper bound
C12_Witness ==
    /\ op.name = "updateVolume" /\ op.key = <<0, "volume">>
    /\ videos[0].linked /\ videos[0].volumeOpacityLinked
    /\ videos[1].linked /\ ~videos[1].locked
    /\ videos[0].volume = 100 /\ videos[0].opacity = 100
    /\ videos[1].volume = 100 /\ videos[1].opacity = 100

\* C13: a live volume change on track A changes, besides A's volume, at most
\* A's opacity (when A is volume-opacity linked) and the volumes of the other
\* cross-linked unlocked tracks (when A is cross-linked); the opacity of
\* another track B stays as it was unless B is volume-opacity linked itself.
\* The same with volume and opacity exchanged.
C13_NoCascadeToOtherOpacity ==
    [][/\ op'.name = "updateVolume" =>
             LET a == op'.key[1]
             IN /\ ~videos[a].volumeOpacityLinked => videos'[a].opacity = videos[a].opacity
                /\ \A b \in Loaded(videos) \ {a} :
                      /\ ~(videos[a].linked /\ videos[b].linked /\ ~videos[b].locked)
                            => videos'[b].volume = videos[b].volume
                      /\ ~videos[b].volumeOpacityLinked
                            => /\ videos'[b].opacity = videos[b].opacity
                               /\ layerOpacity'[b] = layerOpacity[b]
       /\ op'.name = "updateOpacity" =>
             LET a == op'.key[1]
             IN /\ ~videos[a].volumeOpacityLinked => videos'[a].volume = videos[a].volume
                /\ \A b \in Loaded(videos) \ {a} :
                      /\ ~(videos[a].linked /\ videos[b].linked /\ ~videos[b].locked)
                            => videos'[b].opacity = videos[b].opacity
                      /\ ~videos[b].volumeOpacityLinked
                            => /\ videos'[b].volume = videos[b].volume
                               /\ playerVolume'[b] = playerVolume[b]]_vars

\* ================================================== claims on finalization
\* C14: when a recording window closes, exactly one session is appended to the
\* session list and the sessions before it stay as they were; the new session
\* holds every sample accepted since the window opened, and its duration is
\* the time elapsed since then; hence every sample of every finalized session
\* has a timestamp between 0 and that session's duration.
C14_StopAppendsOneSession ==
    /\ [](\A i \in 1 .. Len(recordingSessions) : \A k \in Keys :
            \A j \in 1 .. Len(StoredLog(recordingSessions, i, k)) :
                /\ 0 <= StoredLog(recordingSessions, i, k)[j].timestamp
                /\ StoredLog(recordingSessions, i, k)[j].timestamp
                      <= recordingSessions[i].duration)
    /\ [][(isRecording /\ ~isRecording') =>
             /\ Len(recordingSessions') = Len(recordingSessions) + 1
             /\ \A i \in 1 .. Len(recordingSessions) :
                    recordingSessions'[i] = recordingSessions[i]
             /\ LET last == recordingSessions'[Len(recordingSessions')]
                IN /\ last.controlData = currentRecordingData.controlData
                   /\ last.duration = now - recordingStartTime
                   /\ last.session = currentSession]_vars

\* an overdub take that was just finalized with a sample accepted after the
\* window had opened
C14_Witness ==
    /\ op.name = "recordingTick" /\ ~isRecording
    /\ Len(recordingSessions) = 2
    /\ \E k \in SliderKeys :
          /\ StoredLog(recordingSessions, 2, k) # <<>>
          /\ StoredLog(recordingSessions, 2, k)[1].timestamp > 0
    /\ recordingSessions[2].duration = now - recordingStartTime

\* ================================================ claims on the hijack set
\* the other tracks a slider move on track a reaches through the cross link
LinkedOthers(vids, a) ==
    IF vids[a].linked
    THEN {u \in Loaded(vids) \ {a} : vids[u].linked /\ ~vids[u].locked}
    ELSE {}

\* C15: a call of hijackControl for a slider that is not yet in the Hijack
\* Set adds exactly the keys the rule names: the key itself, the track's
\* paired control when the track is volume-opacity linked, and, when the track
\* is cross-linked, the same control of every other cross-linked unlocked
\* track b with b's paired control when b is volume-opacity linked itself.
\* The call is the one made by the debounce callback for the touched slider,
\* or the one updateLinkedControls makes for the single linked track reached
\* by a move on a track that is not volume-opacity linked.
C15_HijackClosure ==
    [][LET Named(a, c) ==
               {<<a, c>>}
                 \cup (IF videos[a].volumeOpacityLinked THEN {<<a, Paired(c)>>} ELSE {})
                 \cup (IF videos[a].linked
                       THEN UNION {{<<b, c>>}
                                     \cup (IF videos[b].volumeOpacityLinked
                                           THEN {<<b, Paired(c)>>} ELSE {}) :
                                   b \in {u \in Loaded(videos) \ {a} :
                                             videos[u].linked /\ ~videos[u].locked}}
                       ELSE {})
       IN /\ (op'.called /\ op'.key[2] \in SliderControls
                 /\ op'.key \notin hijackedControls)
               => hijackedControls' = hijackedControls \cup Named(op'.key[1], op'.key[2])
          /\ (op'.name \in {"updateVolume", "updateOpacity"} /\ isPlaybackMode
                 /\ ~videos[op'.key[1]].volumeOpacityLinked)
               => \A b \in LinkedOthers(videos, op'.key[1]) :
                     (LinkedOthers(videos, op'.key[1]) = {b}
                        /\ <<b, op'.key[2]>> \notin hijackedControls)
                     => hijackedControls' = hijackedControls \cup Named(b, op'.key[2])]_vars

\* ============================================== replay over two stored takes
\* The create page at the start of a third take: two finalized takes are
\* stored and startPlaybackMode has just started the replay interval.  A take
\* recorded as an overdub holds, for a control the user touched, samples from
\* the touch on, and the touch removed the earlier take's samples from that
\* time on; so the earlier take's log of a control ends before the later one's
\* begins.  A jump sample stores the keyframe it jumped to.
TakeKeyframes == <<5, 9, Null>>

EarlierVolumeLogs ==
    { <<>>, <<Sample(0, 0)>>, <<Sample(0, 50), Sample(300, 75)>>,
      <<Sample(100, 90), Sample(400, 10)>>, <<Sample(0, 20), Sample(500, 60)>> }
LaterVolumeLogs ==
    { <<>>, <<Sample(600, 100)>>, <<Sample(600, 40), Sample(900, 70)>> }
EarlierOpacityLogs == { <<>>, <<Sample(410, 40), Sample(490, 80)>> }
LaterOpacityLogs == { <<>>, <<Sample(550, 10)>> }
EarlierJumpLogs == { <<>>, <<JumpEvent(250, 1, TakeKeyframes[2])>> }
LaterJumpLogs == { <<>>, <<JumpEvent(1250, 0, TakeKeyframes[1])>> }

TakeOf(n, v, o, j, more) ==
    [session |-> n, startTime |-> Epoch, duration |-> MaxReplayMs,
     controlData |->
        [s \in Slots |->
            IF s = 0 THEN [volume |-> v, opacity |-> o, timestamps |-> j]
            ELSE IF more
                 THEN [volume |-> <<Sample(200, 30)>>,
                       opacity |-> <<Sample(700, 60)>>,
                       timestamps |-> <<JumpEvent(800, 0, TakeKeyframes[1])>>]
                 ELSE EmptySlotData]]

TwoTakes ==
    { << TakeOf(1, v1, o1, j1, more), TakeOf(2, v2, o2, j2, FALSE) >> :
        v1 \in EarlierVolumeLogs, v2 \in LaterVolumeLogs,
        o1 \in EarlierOpacityLogs, o2 \in LaterOpacityLogs,
        j1 \in EarlierJumpLogs, j2 \in LaterJumpLogs, more \in BOOLEAN }

InitTakes ==
    /\ now = Epoch
    /\ used = 0
    /\ videos = [s \in Slots |-> NewVideo(VideoIds[s + 1], TakeKeyframes, FALSE, FALSE)]
    /\ recordingSessions \in TwoTakes
    /\ volSlider = [s \in Slots |-> DefaultVolume]
    /\ opcSlider = [s \in Slots |-> DefaultOpacity]
    /\ ctlDisabled = [s \in Slots |-> TRUE]
    /\ lockBtnDisabled = TRUE
    /\ playerVolume = [s \in Slots |-> DefaultVolume]
    /\ layerOpacity = [s \in Slots |-> DefaultOpacity]
    /\ previewSeek = [s \in Slots |-> Null]
    /\ mainSeek = [s \in Slots |-> Null]
    /\ currentPlaybackVolumes = [s \in Slots |-> Null]
    /\ syncLocks = [s \in Slots |-> FALSE]
    /\ seekChain = [s \in Slots |-> NoChain]
    /\ isRecording = FALSE
    /\ isCountdown = TRUE
    /\ isPlaybackMode = TRUE
    /\ recordingStartTime = Epoch
    /\ playbackStartTime = now
    /\ currentSession = 3
    /\ currentRecordingData = recordingSessions[2]
    /\ hijackedControls = {}
    /\ lastRecordingTime = [k \in Keys |-> 0]
    /\ countdown = CountdownFrom
    /\ countdownDue = now + SecondMs
    /\ timeLeft = 0
    /\ recordingDue = Null
    /\ playbackDue = now + ReplayTickMs
    /\ debounceDue = [k \in SliderKeys |-> Null]
    /\ alertMsg = NoAlert
    /\ op = Ran("startRecordingSession")
    /\ replayWrites = {}
    /\ firstTouch = [k \in SliderKeys |-> Null]
    /\ pb = NoPlayback

\* the seek timers that fire before the next replay tick
SeekDues == {seekChain[s].due : s \in Slots} \ {Null}

\* the playbackInterval callback of startPlaybackMode, fired at its due time
\* once the seek timers due before it have run
OverdubTick ==
    /\ playbackDue # Null
    /\ playbackDue - playbackStartTime <= MaxReplayMs
    /\ \A d \in SeekDues : d > playbackDue
    /\ now' = playbackDue
    /\ LET elapsed == now' - playbackStartTime
           st == replayAll([volSlider |-> volSlider, opcSlider |-> opcSlider,
                            cpv |-> currentPlaybackVolumes,
                            playerVolume |-> playerVolume,
                            layerOpacity |-> layerOpacity, syncLocks |-> syncLocks,
                            seekChain |-> seekChain, previewSeek |-> previewSeek,
                            writes |-> {}],
                           hijackedControls, videos, recordingSessions, elapsed, now')
       IN /\ volSlider' = st.volSlider
          /\ opcSlider' = st.opcSlider
          /\ currentPlaybackVolumes' = st.cpv
          /\ playerVolume' = st.playerVolume
          /\ layerOpacity' = st.layerOpacity
          /\ syncLocks' = st.syncLocks
          /\ seekChain' = st.seekChain
          /\ previewSeek' = st.previewSeek
          /\ replayWrites' = st.writes
    /\ playbackDue' = playbackDue + ReplayTickMs
    /\ op' = Ran("overdubTick")
    /\ UNCHANGED <<ReplayFrame, pb>>

\* a timer of a replayed jump's setTimeout chain, fired at its due time
SeekTimer(slot) ==
    /\ seekChain[slot].stage # 0
    /\ seekChain[slot].due <= playbackDue
    /\ \A d \in SeekDues : seekChain[slot].due <= d
    /\ now' = seekChain[slot].due
    /\ IF seekChain[slot].stage = 1
       THEN /\ mainSeek' = [mainSeek EXCEPT ![slot] = seekChain[slot].target]
            /\ seekChain' = [seekChain EXCEPT ![slot].stage = 2,
                                              ![slot].due = now' + LockReleaseMs]
            /\ UNCHANGED syncLocks
       ELSE /\ syncLocks' = [syncLocks EXCEPT ![slot] = FALSE]
            /\ seekChain' = [seekChain EXCEPT ![slot] = NoChain]
            /\ UNCHANGED mainSeek
    /\ replayWrites' = {}
    /\ op' = Ran("seekTimer")
    /\ UNCHANGED <<used, videos, volSlider, opcSlider, ctlDisabled, lockBtnDisabled,
                   playerVolume, layerOpacity, previewSeek, currentPlaybackVolumes,
                   SessionVars, recordingSessions, currentRecordingData,
                   hijackedControls, lastRecordingTime, TimerVars, debounceDue,
                   alertMsg, firstTouch, pb>>

NextTakes ==
    \/ OverdubTick
    \/ \E s \in Slots : SeekTimer(s)

SpecTakes == InitTakes /\ [][NextTakes]_vars
\* the page state a replay tick reads and writes
ReplayState ==
    [volSlider |-> volSlider, opcSlider |-> opcSlider,
     cpv |-> currentPlaybackVolumes, playerVolume |-> playerVolume,
     layerOpacity |-> layerOpacity, syncLocks |-> syncLocks,
     seekChain |-> seekChain, previewSeek |-> previewSeek, writes |-> {}]

\* takes whose volume log of slot s has a sample at or before elapsed e
VolumeDefinedBy(s, e) ==
    {i \in 1 .. Len(recordingSessions) :
        \E k \in 1 .. Len(recordingSessions[i].controlData[s].volume) :
            recordingSessions[i].controlData[s].volume[k].timestamp <= e}

\* takes whose opacity log of slot s has a sample within the window around e
OpacityDefinedBy(s, e) ==
    {i \in 1 .. Len(recordingSessions) :
        \E k \in 1 .. Len(recordingSessions[i].controlData[s].opacity) :
            Abs(recordingSessions[i].controlData[s].opacity[k].timestamp - e)
                < OpacityWindowMs}

\* ============================================ claims on the overdub replayer
\* C16: when both stored takes define a value for the same control of a slot
\* at elapsed e and the control is not hijacked, one replay tick at e leaves
\* the slider, the applied opacity and the volume the player is stepped to
\* as a replay of the later take alone would leave them.
C16_LaterTakeAlone ==
    [][op'.name = "overdubTick" =>
         LET e == now' - playbackStartTime
             alone == replayAll(ReplayState, hijackedControls, videos,
                                <<recordingSessions[2]>>, e, now')
         IN \A s \in Slots :
               /\ (VolumeDefinedBy(s, e) = {1, 2} /\ <<s, "volume">> \notin hijackedControls)
                     => /\ volSlider'[s] = alone.volSlider[s]
                        /\ playerVolume'[s] = alone.playerVolume[s]
               /\ (OpacityDefinedBy(s, e) = {1, 2} /\ <<s, "opacity">> \notin hijackedControls)
                     => /\ opcSlider'[s] = alone.opcSlider[s]
                        /\ layerOpacity'[s] = alone.layerOpacity[s]]_vars
\* C17: the volume target a replay tick at elapsed e computes from a take's
\* log, read off the slider the tick writes (the last take with a current
\* sample writes last).  With (t1, v1) the latest sample at or before e and
\* (t2, v2) the first sample after e: when t2 - t1 is below the 500 ms gap the
\* target is v1 + (v2 - v1) * (e - t1) / (t2 - t1) rounded to the nearest
\* integer (halves up), which lies between v1 and v2 and within 0..100;
\* otherwise it is v1; when no take has a sample at or before e, the slider,
\* the last-applied volume and the player are left alone.
C17_VolumeTarget ==
    [][op'.name = "overdubTick" =>
         \A s \in Slots :
            LET e == now' - playbackStartTime
                by == VolumeDefinedBy(s, e)
            IN IF by = {}
               THEN /\ volSlider'[s] = volSlider[s]
                    /\ playerVolume'[s] = playerVolume[s]
                    /\ currentPlaybackVolumes'[s] = currentPlaybackVolumes[s]
               ELSE LET i == CHOOSE x \in by : \A y \in by : y <= x
                        log == recordingSessions[i].controlData[s].volume
                        past == {k \in 1 .. Len(log) : log[k].timestamp <= e}
                        c == CHOOSE k \in past :
                                \A j \in past : log[j].timestamp <= log[k].timestamp
                        later == {k \in 1 .. Len(log) : log[k].timestamp > e}
                        v == volSlider'[s]
                    IN IF later = {}
                       THEN v = log[c].value
                       ELSE LET n == CHOOSE k \in later : \A j \in later : k <= j
                                gap == log[n].timestamp - log[c].timestamp
                                exact == log[c].value * gap
                                           + (log[n].value - log[c].value)
                                               * (e - log[c].timestamp)
                            IN IF gap < InterpGapMs
                               THEN /\ -gap < 2 * (v * gap - exact)
                                    /\ 2 * (v * gap - exact) <= gap
                                    /\ Min(log[c].value, log[n].value) <= v
                                    /\ v <= Max(log[c].value, log[n].value)
                                    /\ v \in 0 .. 100
                               ELSE v = log[c].value]_vars

\* a tick at elapsed 200 between the samples (0, 50) and (300, 75): 66.67
\* rounds to 67
C17_Witness ==
    /\ op.name = "overdubTick"
    /\ now - playbackStartTime = 200
    /\ recordingSessions[1].controlData[0].volume = <<Sample(0, 50), Sample(300, 75)>>
    /\ volSlider[0] = 67
\* C18: the opacity a replay tick at elapsed e applies from a take's log is
\* the value of the sample nearest in time to e among the samples within
\* 100 ms of e (the last take with such a sample writes last); when no take
\* has a sample within 100 ms of e, slider and layer opacity are left alone.
C18_NearestOpacity ==
    [][op'.name = "overdubTick" =>
         \A s \in Slots :
            LET e == now' - playbackStartTime
                by == OpacityDefinedBy(s, e)
            IN IF by = {}
               THEN /\ opcSlider'[s] = opcSlider[s]
                    /\ layerOpacity'[s] = layerOpacity[s]
               ELSE LET i == CHOOSE x \in by : \A y \in by : y <= x
                        log == recordingSessions[i].controlData[s].opacity
                        near == {k \in 1 .. Len(log) :
                                    Abs(log[k].timestamp - e) < OpacityWindowMs}
                        nearest == {k \in near :
                                       \A j \in near : Abs(log[k].timestamp - e)
                                                         <= Abs(log[j].timestamp - e)}
                    IN /\ layerOpacity'[s] \in {log[k].value : k \in nearest}
                       /\ opcSlider'[s] = layerOpacity'[s]]_vars
\* C19: every applyVolumeSmooth call of a replay tick leaves the slot's
\* last-applied volume at the target when the two differ by at most 2, and
\* otherwise 2 nearer to the target (5 nearer when they differ by more than
\* 20), never beyond it.  A tick calls it once for each take that has a current
\* volume sample, in take order, with that take's target; a slot that was
\* never stepped starts from the player's volume.  After a tick with a single
\* call the last-applied volume is no farther from the target than before.
C19_VolumeRamp ==
    [][op'.name = "overdubTick" =>
         \A s \in Slots :
            LET e == now' - playbackStartTime
                by == VolumeDefinedBy(s, e)
                start == IF currentPlaybackVolumes[s] = Null THEN playerVolume[s]
                         ELSE currentPlaybackVolumes[s]
                Ramped(cur, target) ==
                    IF Abs(target - cur) <= 2 THEN target
                    ELSE IF Abs(target - cur) > 20
                         THEN (IF target > cur THEN cur + 5 ELSE cur - 5)
                         ELSE (IF target > cur THEN cur + 2 ELSE cur - 2)
                Target(i) == volumeTarget(recordingSessions[i].controlData[s].volume, e)
                After[i \in 0 .. Len(recordingSessions)] ==
                    IF i = 0 THEN start
                    ELSE IF i \in by THEN Ramped(After[i - 1], Target(i))
                         ELSE After[i - 1]
            IN /\ by # {} =>
                    /\ currentPlaybackVolumes'[s] = After[Len(recordingSessions)]
                    /\ playerVolume'[s] = currentPlaybackVolumes'[s]
               /\ \A i \in by :
                     by = {i} =>
                        /\ Abs(Target(i) - currentPlaybackVolumes'[s])
                              <= Abs(Target(i) - start)
                        /\ Min(start, Target(i)) <= currentPlaybackVolumes'[s]
                        /\ currentPlaybackVolumes'[s] <= Max(start, Target(i))]_vars

\* the ramp toward the sample (600, 100) from the player's 50: steps of 5
\* down to a gap of 20, then steps of 2
C19_Witness ==
    /\ op.name = "overdubTick"
    /\ recordingSessions[1].controlData[0].volume = <<>>
    /\ recordingSessions[2].controlData[0].volume = <<Sample(600, 100)>>
    /\ now - playbackStartTime = 1200
    /\ currentPlaybackVolumes[0] = 82
EventLog(data, s) ==
    IF s \in DOMAIN data.controlData THEN data.controlData[s].timestamps ELSE <<>>

\* C21: during recording every user setKeyframe, jumpToKeyframe and
\* deleteKeyframe on an unlocked track appends exactly one keyframe-event
\* sample to the in-progress log of its slot (a delete with time null), also
\* when it follows a user-made or replay-made jump on the slot closely, and
\* also when the jump hijacks the slot's keyframe events.
C21_EveryKeyframeEventRecorded ==
    [][(isRecording /\ op'.name \in {"setKeyframe", "jumpToKeyframe", "deleteKeyframe"})
         => \E s \in Loaded(videos) :
              /\ Len(EventLog(currentRecordingData', s))
                    = Len(EventLog(currentRecordingData, s)) + 1
              /\ LET p == EventLog(currentRecordingData', s)[Len(EventLog(currentRecordingData', s))]
                 IN /\ p.timestamp = now - recordingStartTime
                    /\ op'.name = "jumpToKeyframe" =>
                          /\ s = op'.key[1]
                          /\ p.action = "jump"
                          /\ p.time = videos[s].keyframes[p.keyframeIndex + 1]
                    /\ op'.name = "setKeyframe" => p.action = "set"
                    /\ op'.name = "deleteKeyframe" => (p.action = "delete" /\ p.time = Null)
              /\ \A u \in Loaded(videos) \ {s} :
                    EventLog(currentRecordingData', u) = EventLog(currentRecordingData, u)]_vars
\* C22: of the values arriving for one slider within one throttle window the
\* last one is persisted; so after every live slider move made during
\* recording the final sample of that slider's in-progress log carries the
\* slider's live value.
C22_LastValuePersisted ==
    [][(isRecording /\ op'.name \in {"updateVolume", "updateOpacity"})
         => LET log == LiveLog(currentRecordingData', op'.key)
            IN /\ log # <<>>
               /\ log[Len(log)].value = SliderValue(volSlider', opcSlider', op'.key)]_vars
\* C23: in the in-progress session and in every finalized one, the samples of
\* each slider have non-decreasing timestamps and consecutive ones are at
\* least 25 ms apart; a slider move made during recording is accepted whenever
\* its own slider has no sample in this session yet or its own last accepted
\* sample is at least 25 ms old, whatever the other sliders recorded and
\* however recently the previous session recorded.
C23_ThrottlePerKey ==
    /\ [](\A k \in SliderKeys :
            /\ \A j \in 1 .. (Len(LiveLog(currentRecordingData, k)) - 1) :
                  LiveLog(currentRecordingData, k)[j + 1].timestamp
                     >= LiveLog(currentRecordingData, k)[j].timestamp + 25
            /\ \A i \in 1 .. Len(recordingSessions) :
                  \A j \in 1 .. (Len(StoredLog(recordingSessions, i, k)) - 1) :
                     StoredLog(recordingSessions, i, k)[j + 1].timestamp
                        >= StoredLog(recordingSessions, i, k)[j].timestamp + 25)
    /\ [][(isRecording /\ op'.name \in {"updateVolume", "updateOpacity"})
            => LET old == LiveLog(currentRecordingData, op'.key)
                   new == LiveLog(currentRecordingData', op'.key)
                   t == now - recordingStartTime
               IN /\ (old = <<>> \/ t - old[Len(old)].timestamp >= 25)
                       => (Len(new) = Len(old) + 1 /\ new[Len(new)].timestamp = t)
                  /\ \A k \in SliderKeys \ {op'.key} :
                        LiveLog(currentRecordingData', k) = LiveLog(currentRecordingData, k)]_vars

\* a second take in which one slider has two accepted samples and the other
\* slider of the track one
C23_Witness ==
    /\ currentSession = 2
    /\ \E s \in Loaded(videos) :
          /\ Len(LiveLog(currentRecordingData, <<s, "volume">>)) = 2
          /\ Len(LiveLog(currentRecordingData, <<s, "opacity">>)) = 0
\* ===================================== stopping the replay, on both pages
\* The create page runs an overdub over one stored take to its end with no
\* user gesture; the composition is then saved and opened on the playback
\* page, where the viewer starts and pauses the playback at will.
PbSpanMs == 2 * DurationMs     \* the playback page is driven for this long
\* from the start of the overdub to its stopRecording: countdown, then window
StopMs == (CountdownFrom + 1) * SecondMs + DurationMs

StopTakes ==
    { << [session |-> 1, startTime |-> Epoch, duration |-> DurationMs,
          controlData |-> [s \in {0} |-> [volume |-> v, opacity |-> o, timestamps |-> j]]] >> :
        v \in {<<>>, <<Sample(50, 80)>>},
        o \in {<<>>, <<Sample(100, 40)>>},
        j \in {<<>>, <<JumpEvent(150, 0, 5)>>} }

\* pausePlayback
pausePlayback(p) ==
    IF ~p.active THEN p
    ELSE [p EXCEPT !.active = FALSE, !.intervalDue = Null, !.paused = TRUE]

InitStop ==
    /\ now = Epoch
    /\ used = 0
    /\ videos = [s \in Slots |-> IF s = 0 THEN Track(s, 5, FALSE, FALSE) ELSE NoVideo]
    /\ recordingSessions \in StopTakes
    /\ volSlider = [s \in Slots |-> DefaultVolume]
    /\ opcSlider = [s \in Slots |-> DefaultOpacity]
    /\ ctlDisabled = [s \in Slots |-> videos[s] # NoVideo]
    /\ lockBtnDisabled = TRUE
    /\ playerVolume = [s \in Slots |-> DefaultVolume]
    /\ layerOpacity = [s \in Slots |-> DefaultOpacity]
    /\ previewSeek = [s \in Slots |-> Null]
    /\ mainSeek = [s \in Slots |-> Null]
    /\ currentPlaybackVolumes = [s \in Slots |-> Null]
    /\ syncLocks = [s \in Slots |-> FALSE]
    /\ seekChain = [s \in Slots |-> NoChain]
    /\ isRecording = FALSE
    /\ isCountdown = TRUE
    /\ isPlaybackMode = TRUE
    /\ recordingStartTime = Epoch
    /\ playbackStartTime = now
    /\ currentSession = 2
    /\ currentRecordingData = recordingSessions[1]
    /\ hijackedControls = {}
    /\ lastRecordingTime = [k \in Keys |-> 0]
    /\ countdown = CountdownFrom
    /\ countdownDue = now + SecondMs
    /\ timeLeft = 0
    /\ recordingDue = Null
    /\ playbackDue = now + ReplayTickMs
    /\ debounceDue = [k \in SliderKeys |-> Null]
    /\ alertMsg = NoAlert
    /\ op = Ran("startRecordingSession")
    /\ replayWrites = {}
    /\ firstTouch = [k \in SliderKeys |-> Null]
    /\ pb = NoPlayback

\* the create page's variables but the clock
CreateSideButClock ==
    <<volSlider, opcSlider, playerVolume, layerOpacity, previewSeek,
      currentPlaybackVolumes, syncLocks, seekChain, playbackDue>>

\* the save button, pressed once the overdub is over
SaveAfterStop ==
    /\ ~isRecording /\ ~isCountdown /\ PendingDues = {}
    /\ SaveComposition

\* the play button of the playback page: startPlayback
StartPlayback ==
    /\ pb.loaded /\ ~pb.active
    /\ pb' = [pb EXCEPT !.active = TRUE, !.start = now - pb.time,
                        !.intervalDue = now + PbTickMs, !.paused = FALSE]
    /\ op' = Ran("startPlayback")
    /\ replayWrites' = {}
    /\ UNCHANGED <<now, ReplayFrame, CreateSideButClock>>

\* pausePlayback that pauses the players but leaves the playback loop running
PausePlaybackLeavesLoop ==
    /\ pb.active
    /\ pb' = [pb EXCEPT !.paused = TRUE]
    /\ op' = Ran("pausePlayback")
    /\ replayWrites' = {}
    /\ UNCHANGED <<now, ReplayFrame, CreateSideButClock>>

\* the pause button of the playback page
PausePlayback ==
    /\ pb.active
    /\ pb' = pausePlayback(pb)
    /\ op' = Ran("pausePlayback")
    /\ replayWrites' = {}
    /\ UNCHANGED <<now, ReplayFrame, CreateSideButClock>>

\* the playbackInterval callback of the playback page: updatePlaybackTime
PbIntervalTick ==
    /\ pb.intervalDue # Null /\ pb.intervalDue <= now
    /\ LET t == now - pb.start
           next == [pb EXCEPT !.intervalDue = @ + PbTickMs]
       IN pb' = IF ~pb.active THEN next
                ELSE IF t >= CompositionDuration
                     THEN pausePlayback(updatePlaybackTime(next, t))
                     ELSE updatePlaybackTime(next, t)
    /\ op' = Ran("updatePlaybackTime")
    /\ replayWrites' = {}
    /\ UNCHANGED <<now, ReplayFrame, CreateSideButClock>>

\* the timer of performSmoothSeek
PbSeekUnlock(slot) ==
    /\ pb.unlockDue[slot] # Null /\ pb.unlockDue[slot] <= now
    /\ pb' = [pb EXCEPT !.seekingSlots = @ \ {slot}, !.unlockDue[slot] = Null]
    /\ op' = Ran("seekUnlock")
    /\ replayWrites' = {}
    /\ UNCHANGED <<now, ReplayFrame, CreateSideButClock>>

PbDues == ({pb.intervalDue} \cup {pb.unlockDue[s] : s \in Slots}) \ {Null}

\* time passes on the playback page
PbAdvance ==
    /\ PbDues # {}
    /\ \A d \in PbDues : d > now
    /\ now - playbackStartTime < StopMs + PbSpanMs
    /\ now' = now + Quantum
    /\ op' = Ran("advance")
    /\ replayWrites' = {}
    /\ UNCHANGED <<pb, ReplayFrame, CreateSideButClock>>

NextStop ==
    \/ CountdownTick
    \/ RecordingTick
    \/ PlaybackTick
    \/ \E s \in Slots : SeekChainStep(s)
    \/ Advance
    \/ SaveAfterStop
    \/ SetupPlayback
    \/ StartPlayback
    \/ PausePlayback
    \/ PbIntervalTick
    \/ \E s \in Slots : PbSeekUnlock(s)
    \/ PbAdvance

SpecStop == InitStop /\ [][NextStop]_vars

\* ==================================================== claims on stopping
\* C24: once stopRecording has returned, and until the next session starts
\* the replay again, no step of the create page writes a replay-driven value:
\* no volume, no opacity and no seek of a replayed jump reaches a slider, layer
\* or player, also not from a timer an earlier replay tick scheduled.  And
\* once pausePlayback has returned on the playback page, and until playback is
\* started again, no step changes a player's volume, a layer's opacity or a
\* player's seek target.
C24_NoReplayWriteAfterStop ==
    [][/\ (recordingSessions # <<>> /\ ~isPlaybackMode /\ ~isRecording)
            => replayWrites' = {}
       /\ (pb.paused /\ pb'.paused)
            => /\ pb'.mainVolume = pb.mainVolume
               /\ pb'.cpv = pb.cpv
               /\ pb'.layerOpacity = pb.layerOpacity
               /\ pb'.seek = pb.seek]_vars

\* the overdub replayed the stored jump and has stopped; on the playback page
\* the jump was replayed and playback was paused with the seek's timer pending
C24_Witness ==
    /\ Len(recordingSessions) = 2 /\ ~isRecording /\ ~isPlaybackMode
    /\ mainSeek[0] = 5
    /\ pb.paused
    /\ pb.seek[0] = 5
    /\ pb.unlockDue[0] # Null
\* ============================================= players whose calls can throw
\* The overdub of InitStop on a page whose preview player may throw from
\* seekTo: the call of startActualRecording and the call of
\* playbackTimestampData are both made outside any try block, so the
\* exception leaves the timer callback that made the call.

\* playbackTimestampData whose previewPlayers[slot].seekTo throws: the lock is
\* taken, the seek and the timers that would release the lock are not reached
playbackTimestampDataThrows(st, vids, slot, timestampData, currentTime) ==
    LET i == FindNear(timestampData, currentTime)
    IN IF i # 0 /\ timestampData[i].action = "jump"
          /\ vids[slot].keyframes[timestampData[i].keyframeIndex + 1] # Null
          /\ ~st.syncLocks[slot]
       THEN [st EXCEPT !.syncLocks[slot] = TRUE, !.thrown = TRUE]
       ELSE st

\* the replay tick up to the throw: nothing after it in the callback runs
replayUntilThrow(st, hijacked, vids, sessions, currentTime) ==
    LET n == Len(sessions)
        Step[i \in 0 .. n * NumSlots] ==
            IF i = 0 THEN st
            ELSE LET session == sessions[((i - 1) \div NumSlots) + 1]
                     slot == (i - 1) % NumSlots
                     q == Step[i - 1]
                 IN IF q.thrown \/ slot \notin DOMAIN session.controlData
                       \/ vids[slot] = NoVideo
                    THEN q
                    ELSE LET slotData == session.controlData[slot]
                             a == playbackVolumeData(q, hijacked, slot,
                                                     slotData.volume, currentTime)
                             b == playbackOpacityData(a, hijacked, slot,
                                                      slotData.opacity, currentTime)
                         IN IF <<slot, "timestamps">> \in hijacked THEN b
                            ELSE playbackTimestampDataThrows(b, vids, slot,
                                     slotData.timestamps, currentTime)
    IN Step[n * NumSlots]

\* the playbackInterval callback in which a replayed jump's seekTo throws: the
\* interval stays armed, the test that would clear it is skipped
PlaybackTickThrows ==
    /\ UNCHANGED pb
    /\ playbackDue # Null /\ playbackDue <= now
    /\ LET elapsed == now - playbackStartTime
           st == replayUntilThrow([volSlider |-> volSlider, opcSlider |-> opcSlider,
                                   cpv |-> currentPlaybackVolumes,
                                   playerVolume |-> playerVolume,
                                   layerOpacity |-> layerOpacity,
                                   syncLocks |-> syncLocks, writes |-> {},
                                   thrown |-> FALSE],
                                  hijackedControls, videos, recordingSessions, elapsed)
       IN /\ st.thrown
          /\ volSlider' = st.volSlider
          /\ opcSlider' = st.opcSlider
          /\ currentPlaybackVolumes' = st.cpv
          /\ playerVolume' = st.playerVolume
          /\ layerOpacity' = st.layerOpacity
          /\ syncLocks' = st.syncLocks
          /\ replayWrites' = st.writes
          /\ playbackDue' = playbackDue + ReplayTickMs
    /\ op' = Ran("playbackTickThrows")
    /\ UNCHANGED <<now, used, videos, ctlDisabled, lockBtnDisabled, mainSeek,
                   previewSeek, seekChain,
                   SessionVars, recordingSessions, currentRecordingData,
                   hijackedControls, lastRecordingTime, countdown, countdownDue,
                   timeLeft, recordingDue, debounceDue, alertMsg, firstTouch>>

\* the last countdownInterval callback in which the first seekTo of
\* startActualRecording throws: the statements before the seek loop have run,
\* the session data and the recording timer are never set up
CountdownTickThrows ==
    /\ UNCHANGED pb
    /\ countdownDue # Null /\ countdownDue <= now
    /\ countdown - 1 < 0
    /\ \E s \in Slots : videos[s] # NoVideo /\ Leftmost(videos[s]) # Null
    /\ countdown' = countdown - 1
    /\ countdownDue' = Null
    /\ isCountdown' = FALSE
    /\ isRecording' = TRUE
    /\ recordingStartTime' = now
    /\ lastRecordingTime' = [k \in Keys |-> 0]
    /\ IF currentSession > 1
       THEN /\ hijackedControls' = {}
            /\ ctlDisabled' = [s \in Slots |-> FALSE]
            /\ lockBtnDisabled' = FALSE
       ELSE UNCHANGED <<hijackedControls, ctlDisabled, lockBtnDisabled>>
    /\ op' = Ran("countdownTickThrows")
    /\ replayWrites' = {}
    /\ UNCHANGED <<previewSeek, mainSeek, currentRecordingData, timeLeft,
                   recordingDue, firstTouch>>
    /\ UNCHANGED <<now, used, videos, volSlider, opcSlider, playerVolume,
                   layerOpacity, currentPlaybackVolumes, syncLocks, seekChain,
                   isPlaybackMode, playbackStartTime, currentSession,
                   recordingSessions, playbackDue, debounceDue, alertMsg>>

NextThrow ==
    \/ CountdownTick
    \/ CountdownTickThrows
    \/ RecordingTick
    \/ PlaybackTick
    \/ PlaybackTickThrows
    \/ \E s \in Slots : SeekChainStep(s)
    \/ Advance

SpecThrow == InitStop /\ [][NextThrow]_vars

\* ============================================== claims on throwing players
\* C25: a throwing player call never aborts the session.  Whenever the
\* recording window is open the session is being recorded into its own data
\* and its timer is armed, so that it times out and is finalized; and a slot's
\* sync lock is held only while the timer that releases it is pending, so that
\* it is released in the end.
C25_ThrowNeverAbortsSession ==
    /\ isRecording => /\ recordingDue # Null
                      /\ currentRecordingData.session = currentSession
    /\ \A s \in Slots : syncLocks[s] => seekChain[s].due # Null
\* ============================================ hijackControl under all flags
\* The create page in the recording window of an overdub over one stored
\* take of two tracks, each with two samples of every control, the tracks
\* carrying every combination of flags the buttons can produce (a locked
\* track has lost its volume-opacity link).
FlagSets ==
    { f \in [linked : BOOLEAN, volumeOpacityLinked : BOOLEAN, locked : BOOLEAN] :
        f.locked => ~f.volumeOpacityLinked }

FullSlotData ==
    [volume |-> <<Sample(50, 20), Sample(150, 80)>>,
     opacity |-> <<Sample(50, 40), Sample(150, 60)>>,
     timestamps |-> <<JumpEvent(50, 0, 5), JumpEvent(150, 0, 5)>>]

InitHijack ==
    /\ videos \in { [s \in Slots |->
                       [Track(s, 5, f[s].linked, f[s].volumeOpacityLinked)
                           EXCEPT !.locked = f[s].locked]] :
                    f \in [Slots -> FlagSets] }
    /\ recordingSessions =
           << [session |-> 1, startTime |-> Epoch, duration |-> DurationMs,
               controlData |-> [s \in Slots |-> FullSlotData]] >>
    /\ recordingStartTime = Epoch + 2 * DurationMs
    /\ now = recordingStartTime
    /\ playbackStartTime = recordingStartTime - (CountdownFrom + 1) * SecondMs
    /\ used = 0
    /\ volSlider = [s \in Slots |-> DefaultVolume]
    /\ opcSlider = [s \in Slots |-> DefaultOpacity]
    /\ playerVolume = [s \in Slots |-> DefaultVolume]
    /\ layerOpacity = [s \in Slots |-> DefaultOpacity]
    /\ previewSeek = [s \in Slots |-> 5]
    /\ mainSeek = [s \in Slots |-> 5]
    /\ currentPlaybackVolumes = [s \in Slots |-> Null]
    /\ syncLocks = [s \in Slots |-> FALSE]
    /\ seekChain = [s \in Slots |-> NoChain]
    /\ ctlDisabled = [s \in Slots |-> videos[s].locked]
    /\ lockBtnDisabled = FALSE
    /\ isRecording = TRUE
    /\ isCountdown = FALSE
    /\ isPlaybackMode = TRUE
    /\ currentSession = 2
    /\ currentRecordingData =
           [session |-> 2, startTime |-> recordingStartTime, duration |-> DurationMs,
            controlData |-> [s \in Slots |-> EmptySlotData]]
    /\ hijackedControls = {}
    /\ lastRecordingTime = [k \in Keys |-> 0]
    /\ countdown = 0 - 1
    /\ countdownDue = Null
    /\ timeLeft = RecordSeconds
    /\ recordingDue = now + SecondMs
    /\ playbackDue = now + ReplayTickMs
    /\ debounceDue = [k \in SliderKeys |-> Null]
    /\ alertMsg = NoAlert
    /\ op = Ran("startActualRecording")
    /\ replayWrites = {}
    /\ firstTouch = [k \in SliderKeys |-> Null]
    /\ pb = NoPlayback

\* what neither hijackControl nor the clock touches
HijackFrame ==
    <<used, videos, volSlider, opcSlider, ctlDisabled, lockBtnDisabled,
      playerVolume, layerOpacity, previewSeek, mainSeek, currentPlaybackVolumes,
      syncLocks, seekChain, SessionVars, currentRecordingData, lastRecordingTime,
      TimerVars, debounceDue, alertMsg, firstTouch, pb>>

\* hijackControl(slot, controlType), called by a handler of an unlocked track
HijackAt(slot, controlType) ==
    /\ ~videos[slot].locked
    /\ LET r == hijackControl(isPlaybackMode, hijackedControls, recordingSessions,
                              videos, slot, controlType, Elapsed)
       IN /\ hijackedControls' = r[1]
          /\ recordingSessions' = r[2]
    /\ op' = RanOn("hijackControl", slot, controlType, TRUE)
    /\ replayWrites' = {}
    /\ UNCHANGED <<now, HijackFrame>>

\* time passes inside the recording window
HijackClock ==
    /\ Elapsed + 2 * Quantum < DurationMs
    /\ now' = now + 2 * Quantum
    /\ op' = Ran("advance")
    /\ replayWrites' = {}
    /\ UNCHANGED <<hijackedControls, recordingSessions, HijackFrame>>

NextHijack ==
    \/ \E s \in Slots, c \in Controls : HijackAt(s, c)
    \/ HijackClock

SpecHijack == InitHijack /\ [][NextHijack]_vars

\* =============================================== claims on the hijack set
\* C26: a hijack of a slot's keyframe events adds that slot's keyframe-event
\* key and no other key, and changes that slot's keyframe-event log and no
\* other log, whatever the flags of the tracks; a hijack of a volume or an
\* opacity adds no keyframe-event key and changes no keyframe-event log.
C26_KeyframeHijackIsLocal ==
    [][op'.name = "hijackControl" =>
         LET slot == op'.key[1]
             controlType == op'.key[2]
             added == hijackedControls' \ hijackedControls
             Same(s, c) ==
                 \A i \in 1 .. Len(recordingSessions) :
                     recordingSessions'[i].controlData[s][c]
                        = recordingSessions[i].controlData[s][c]
         IN IF controlType = "timestamps"
            THEN /\ added \subseteq {<<slot, "timestamps">>}
                 /\ \A k \in Keys \ {<<slot, "timestamps">>} : Same(k[1], k[2])
            ELSE /\ \A k \in added : k[2] # "timestamps"
                 /\ \A s \in Slots : Same(s, "timestamps")]_vars

\* keyframe events of track 0 were hijacked with both tracks linked, with
\* their volume-opacity links on, and halfway through the stored take
C26_Witness ==
    /\ op.name = "hijackControl" /\ op.key = <<0, "timestamps">>
    /\ \A s \in Slots : videos[s].linked /\ videos[s].volumeOpacityLinked
                          /\ ~videos[s].locked
    /\ hijackedControls = {<<0, "timestamps">>}
    /\ Len(recordingSessions[1].controlData[0].timestamps) = 1
    /\ Len(recordingSessions[1].controlData[1].timestamps) = 2
\* C27: a locked track is never hijacked.  No step adds a control of a track
\* to the hijack set, and no step changes a finalized log of a track, while
\* that track's locked flag is set, whoever was touched.
C27_LockedNeverHijacked ==
    [][\A s \in Slots :
          (videos[s] # NoVideo /\ videos[s].locked /\ videos'[s] # NoVideo
             /\ videos'[s].locked)
          => /\ \A c \in Controls :
                   <<s, c>> \in hijackedControls' => <<s, c>> \in hijackedControls
             /\ \A i \in 1 .. Len(recordingSessions) :
                   (i <= Len(recordingSessions') /\ s \in DOMAIN recordingSessions[i].controlData)
                   => recordingSessions'[i].controlData[s]
                         = recordingSessions[i].controlData[s]]_vars

\* during an overdub the debounced slider of a linked track has hijacked its
\* control while the other linked track was locked
C27_Witness ==
    /\ op.name = "sliderDebounced" /\ op.called
    /\ \E s \in Slots :
          /\ op.key[1] # s
          /\ op.key \in hijackedControls /\ op.key \notin op.hijacked
          /\ videos[op.key[1]].linked
          /\ videos[s] # NoVideo /\ videos[s].linked /\ videos[s].locked
\* ============================================== claims on the two clocks
\* C28: in the recording window of an overdub the replayer and the recorder
\* measure time from the same instant: at every replay tick the elapsed time
\* the replayer looks samples up at is the timestamp a sample recorded in
\* that instant would receive (and the time a hijack would truncate from).
C28_SameClock ==
    (op.name = "playbackTick" /\ isRecording /\ isPlaybackMode)
        => now - playbackStartTime = Elapsed
\* ====================================== claims on the end of a replay
\* C29: in a replay with no hijack the player volume of a slot settles at the
\* target of the latest take that has volume samples for the slot, however
\* many takes there are.  A replay tick is a function of the volume it finds
\* and of the takes' targets, so settling there means that no other volume is
\* a resting point: once every take's last volume sample of the slot has
\* passed, a tick that leaves the slot's volume where it found it has found
\* it at that target.
C29_VolumeSettles ==
    [][\A s \in Slots :
          LET e == now' - playbackStartTime
              defining == VolumeDefinedBy(s, e)
              allPast == \A i \in 1 .. Len(recordingSessions) :
                            \A k \in 1 .. Len(recordingSessions[i].controlData[s].volume) :
                                recordingSessions[i].controlData[s].volume[k].timestamp <= e
          IN (/\ op'.name = "overdubTick"
              /\ videos[s] # NoVideo /\ hijackedControls = {}
              /\ defining # {} /\ allPast
              /\ currentPlaybackVolumes'[s] = currentPlaybackVolumes[s]
              /\ playerVolume'[s] = playerVolume[s])
             => LET latest == CHOOSE i \in defining : \A j \in defining : j <= i
                    log == recordingSessions[latest].controlData[s].volume
                IN playerVolume'[s] = log[Len(log)].value]_vars
\* C30: in one replay run each recorded jump sample of a slot whose keyframe
\* events are not hijacked causes exactly one seek of the slot's player.
\* Stated for a slot with one jump sample in all the takes: the tick that
\* seeks the slot finds it not yet sought in this run (never on two ticks),
\* and once the ticks have passed the sample's window the slot has been
\* sought to the sample's time (never skipped).
C30_OneSeekPerJump ==
    [][op'.name = "overdubTick" =>
         \A s \in Slots :
            LET e == now' - playbackStartTime
                jumps == {ik \in (1 .. Len(recordingSessions)) \X (1 .. 2) :
                             /\ ik[2] <= Len(recordingSessions[ik[1]].controlData[s].timestamps)
                             /\ recordingSessions[ik[1]].controlData[s].timestamps[ik[2]].action
                                   = "jump"}
            IN (Cardinality(jumps) = 1 /\ <<s, "timestamps">> \notin hijackedControls)
                 => LET ik == CHOOSE x \in jumps : TRUE
                        sample == recordingSessions[ik[1]].controlData[s].timestamps[ik[2]]
                    IN /\ <<s, "timestamps">> \in replayWrites' => previewSeek[s] = Null
                       /\ e >= sample.timestamp + OpacityWindowMs
                             => previewSeek'[s] = sample.time]_vars
====
